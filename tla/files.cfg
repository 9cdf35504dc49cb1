CONSTANTS
    BLOCK_SIZE = 2
    SUPER_LAST = 1
    EXT4_BLOCK_SIZE = 4
    DIRENT_BUF = 2
    MaxCmds = 2
    Data <- MCData
    Disks <- MCDisks
    BootArgs <- MCBootArgs
    Commands <- MCCommands
    Dirs <- MCDirs
SPECIFICATION Spec
INVARIANTS IoExact RootAsNamed MountsReachable BootPanics RelativeIsAbsolute MoveKeepsData CopyFaithful RemoveComplete
PROPERTY IoCompletes
