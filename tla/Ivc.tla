--------------------------------- MODULE Ivc ---------------------------------
(***************************************************************************)
(* Inter-VM communication: the channel table IVC_CHANNELS and its          *)
(* operations (kernel/src/vmm/ivc.rs), driven by the hypercalls of         *)
(* kernel/src/vmm/hvc.rs.  Each operation of the table holds its lock, so  *)
(* it is one step; a hypercall is several, and the hypercalls of other     *)
(* vCPUs run between them.  A channel owns one frame of host memory and    *)
(* frees it when it is dropped.                                            *)
(***************************************************************************)
EXTENDS Naturals, FiniteSets

CONSTANTS VM,         \* VM ids
          Key,        \* channel keys
          Frame,      \* frames alloc_frame can return
          NoFrame,    \* no frame
          VcpuNum,    \* vCPUs of each VM that make hypercalls
          MaxGpa,     \* guest regions alloc_ivc_channel hands out (bound)
          Manners     \* subset of BOOLEAN: the kinds of guests considered

ASSUME FiniteAssumption == IsFiniteSet(VM) /\ IsFiniteSet(Key) /\ IsFiniteSet(Frame)
ASSUME NonEmptyAssumption == VM # {} /\ Key # {}
ASSUME FrameAssumption == NoFrame \notin Frame
ASSUME BoundAssumption == VcpuNum \in Nat /\ MaxGpa \in Nat
ASSUME MannersAssumption == Manners \subseteq BOOLEAN

VARIABLES
    channels,  \* IVC_CHANNELS, by publisher and key
    free,      \* frames the host allocator holds
    mapped,    \* second-stage mappings <<vm, gpa, frame>> of shared regions
    lastGpa,   \* lastGpa[v]: regions alloc_ivc_channel has given to v
    call,      \* call[c]: the hypercall vCPU c is in
    careful    \* TRUE: the guests follow the protocol of Polite

vars == <<channels, free, mapped, lastGpa, call, careful>>

Caller == VM \X (1 .. VcpuNum)
ChannelId == VM \X Key
NoGpa == 0
Gpa == 1 .. MaxGpa

\* subs[v] is the region of subscriber v, base that of the publisher; NoGpa
\* stands for None.
NoChannel == [frame |-> NoFrame, base |-> NoGpa, subs |-> [v \in VM |-> NoGpa]]
Exists(id) == channels[id] # NoChannel
Subscribers(id) == {v \in VM : channels[id].subs[v] # NoGpa}

Idle == [pc |-> "idle", id |-> CHOOSE i \in ChannelId : TRUE, gpa |-> NoGpa,
         frame |-> NoFrame]
CallPc == {"idle", "publish", "size", "map", "unmap"}

Init ==
    /\ channels = [id \in ChannelId |-> NoChannel]
    /\ free = Frame
    /\ mapped = {}
    /\ lastGpa = [v \in VM |-> 0]
    /\ call = [c \in Caller |-> Idle]
    /\ careful \in Manners

Goto(c, p, id, gpa, f) ==
    call' = [call EXCEPT ![c] = [pc |-> p, id |-> id, gpa |-> gpa, frame |-> f]]
Return(c) == call' = [call EXCEPT ![c] = Idle]

\* Drop of an IVCChannel: its frame goes back to the allocator.
Drop(f) == free' = IF f = NoFrame THEN free ELSE free \cup {f}

map_region(v, gpa, f) == mapped' = mapped \cup {<<v, gpa, f>>}
unmap_region(v, gpa) == mapped' = {m \in mapped : ~(m[1] = v /\ m[2] = gpa)}

\* A careful guest makes one hypercall at a time, publishes a key that is not
\* in use, unpublishes what it has published, subscribes once, and passes
\* pointers the hypervisor can write to.
Polite(c) ==
    careful => \A d \in Caller : d[1] = c[1] => call[d].pc = "idle"

-----------------------------------------------------------------------------
(* HIVCPublishChannel.                                                     *)

\* Up to the writes to the guest: the region, the frame, the mapping.  Without
\* memory for the frame or for the page table the region alone is taken.
Publish(c, key) ==
    LET v == c[1]
        id == <<c[1], key>>
    IN  /\ call[c].pc = "idle"
        /\ Polite(c)
        /\ careful => ~Exists(id)
        /\ lastGpa[v] < MaxGpa
        /\ lastGpa' = [lastGpa EXCEPT ![v] = @ + 1]
        /\ \/ UNCHANGED <<free, mapped, call>>
           \/ \E f \in free :
                /\ free' = free \ {f}
                /\ map_region(v, lastGpa[v] + 1, f)
                /\ Goto(c, "publish", id, lastGpa[v] + 1, f)
        /\ UNCHANGED <<channels, careful>>

\* A write to the guest fails: the channel is dropped, the mapping stays.
PublishFault(c) ==
    /\ call[c].pc = "publish"
    /\ ~careful
    /\ Drop(call[c].frame)
    /\ Return(c)
    /\ UNCHANGED <<channels, mapped, lastGpa, careful>>

\* Mutant: the channel found under the key is forgotten instead of dropped.
Replaced_Leaked(id) == NoFrame

\* BTreeMap::insert hands back the channel it replaces, which is then dropped.
Replaced(id) == channels[id].frame

\* insert_channel puts the channel in the table whether or not the key is in
\* use; the error it returns then does not undo it.
insert_channel(c) ==
    LET id == call[c].id
    IN  /\ call[c].pc = "publish"
        /\ channels' = [channels EXCEPT ![id] =
                          [frame |-> call[c].frame, base |-> call[c].gpa,
                           subs |-> NoChannel.subs]]
        /\ Drop(Replaced(id))
        /\ Return(c)
        /\ UNCHANGED <<mapped, lastGpa, careful>>

-----------------------------------------------------------------------------
(* HIVCUnPublishChannel.                                                   *)

\* An unpublished channel stays in the table for its subscribers.
StaysInTable(id) == channels[id].base # NoGpa /\ Subscribers(id) # {}

\* The channel is taken out of the table and put back only if it stays; a
\* channel that was already unpublished is dropped on the way to the error.
unpublish_channel(c, key) ==
    LET v == c[1]
        id == <<c[1], key>>
        ch == channels[id]
    IN  /\ call[c].pc = "idle"
        /\ Polite(c)
        /\ careful => ch.base # NoGpa
        /\ Exists(id)
        /\ channels' = [channels EXCEPT ![id] =
                          IF StaysInTable(id) THEN [ch EXCEPT !.base = NoGpa]
                                              ELSE NoChannel]
        /\ Drop(IF StaysInTable(id) THEN NoFrame ELSE ch.frame)
        /\ IF ch.base = NoGpa THEN UNCHANGED call
                              ELSE Goto(c, "unmap", id, ch.base, ch.frame)
        /\ UNCHANGED <<mapped, lastGpa, careful>>

-----------------------------------------------------------------------------
(* HIVCSubscribChannel.                                                    *)

get_channel_size(c, id) ==
    LET v == c[1]
    IN  /\ call[c].pc = "idle"
        /\ Polite(c)
        /\ careful => channels[id].subs[v] = NoGpa
        /\ Exists(id)
        /\ lastGpa[v] < MaxGpa
        /\ lastGpa' = [lastGpa EXCEPT ![v] = @ + 1]
        /\ Goto(c, "size", id, lastGpa[v] + 1, NoFrame)
        /\ UNCHANGED <<channels, free, mapped, careful>>

\* Mutant: the subscription is not recorded.
add_subscriber_Missing(ch, v, gpa) == ch

\* entry(..).or_insert(..): a second subscription keeps the first region.
add_subscriber(ch, v, gpa) ==
    [ch EXCEPT !.subs[v] = IF @ = NoGpa THEN gpa ELSE @]

\* Mutant: the channel whose size was read is taken to be there still.
StillThere_Assumed(id) == TRUE

\* The channel may have gone since its size was read.
StillThere(id) == Exists(id)

subscribe_to_channel_of_publisher(c) ==
    LET id == call[c].id
    IN  /\ call[c].pc = "size"
        /\ IF StillThere(id)
             THEN /\ channels' = [channels EXCEPT ![id] =
                                    add_subscriber(@, c[1], call[c].gpa)]
                  /\ Goto(c, "map", id, call[c].gpa, channels[id].frame)
             ELSE Return(c) /\ UNCHANGED channels
        /\ UNCHANGED <<free, mapped, lastGpa, careful>>

\* map_region, unless the host has no memory for the page table; neither that
\* failure nor one of a later write to the guest undoes the subscription.
SubscribeMap(c) ==
    /\ call[c].pc = "map"
    /\ \/ map_region(c[1], call[c].gpa, call[c].frame)
       \/ UNCHANGED mapped
    /\ Return(c)
    /\ UNCHANGED <<channels, free, lastGpa, careful>>

-----------------------------------------------------------------------------
(* HIVCUnSubscribChannel.                                                  *)

\* Mutant: an unpublished channel is not removed with its last subscriber.
LastLeaves_Forgotten(ch) == FALSE

LastLeaves(ch) == ch.base = NoGpa /\ \A v \in VM : ch.subs[v] = NoGpa

unsubscribe_from_channel_of_publisher(c, id) ==
    LET v == c[1]
        left == [channels[id] EXCEPT !.subs[v] = NoGpa]
    IN  /\ call[c].pc = "idle"
        /\ Polite(c)
        /\ Exists(id)
        /\ channels[id].subs[v] # NoGpa
        /\ channels' = [channels EXCEPT ![id] =
                          IF LastLeaves(left) THEN NoChannel ELSE left]
        /\ Drop(IF LastLeaves(left) THEN left.frame ELSE NoFrame)
        /\ Goto(c, "unmap", id, channels[id].subs[v], channels[id].frame)
        /\ UNCHANGED <<mapped, lastGpa, careful>>

\* The unmap_region that ends an unpublish or an unsubscribe.
Unmap(c) ==
    /\ call[c].pc = "unmap"
    /\ unmap_region(c[1], call[c].gpa)
    /\ Return(c)
    /\ UNCHANGED <<channels, free, lastGpa, careful>>

-----------------------------------------------------------------------------
execute(c) ==
    \/ \E key \in Key : Publish(c, key) \/ unpublish_channel(c, key)
    \/ PublishFault(c) \/ insert_channel(c)
    \/ \E id \in ChannelId :
         get_channel_size(c, id) \/ unsubscribe_from_channel_of_publisher(c, id)
    \/ subscribe_to_channel_of_publisher(c) \/ SubscribeMap(c) \/ Unmap(c)

Next == \E c \in Caller : execute(c)

Spec == Init /\ [][Next]_vars

-----------------------------------------------------------------------------
\* Types of the channel table and of the hypercalls in flight.
TypeOK ==
    /\ channels \in [ChannelId -> [frame : Frame \cup {NoFrame},
                                   base : Gpa \cup {NoGpa},
                                   subs : [VM -> Gpa \cup {NoGpa}]]]
    /\ free \subseteq Frame
    /\ mapped \subseteq VM \X Gpa \X Frame
    /\ lastGpa \in [VM -> 0 .. MaxGpa]
    /\ call \in [Caller -> [pc : CallPc, id : ChannelId, gpa : Gpa \cup {NoGpa},
                            frame : Frame \cup {NoFrame}]]
    /\ careful \in BOOLEAN

\* Frames are neither leaked nor freed twice: a frame is either free or owned
\* by exactly one channel, in the table or on its way there (Drop of
\* IVCChannel), whatever the guests do.
Owners(f) ==
    {<<"table", id>> : id \in {i \in ChannelId : channels[i].frame = f}}
        \cup {<<"call", c>> : c \in {d \in Caller : /\ call[d].pc = "publish"
                                                    /\ call[d].frame = f}}

FrameOwnership ==
    \A f \in Frame : Cardinality(Owners(f)) = IF f \in free THEN 0 ELSE 1

\* A channel that has been unpublished is kept only as long as it has a
\* subscriber: an unsubscribe by its last one removes it from the table.
UnpublishedHasSubscriber ==
    \A id \in ChannelId :
        Exists(id) /\ channels[id].base = NoGpa => Subscribers(id) # {}

\* Between careful guests no VM keeps access to a frame that is not the one of
\* a channel it has published or subscribed to under that address, except in
\* the hypercall that is about to insert or to unmap it.
NoStaleMapping ==
    careful => \A m \in mapped :
        \/ \E id \in ChannelId :
             /\ channels[id].frame = m[3]
             /\ \/ id[1] = m[1] /\ channels[id].base = m[2]
                \/ channels[id].subs[m[1]] = m[2]
        \/ \E c \in Caller : /\ c[1] = m[1]
                             /\ call[c].pc \in {"publish", "unmap"}
                             /\ call[c].gpa = m[2]

\* "If the channel still has subscribers, it will just mark it as unpublished":
\* a channel with subscribers leaves the table only when its last subscriber
\* unsubscribes.
UnpublishKeepsSubscribed ==
    [][\A id \in ChannelId :
         Subscribers(id) # {} /\ channels'[id] = NoChannel =>
             \E c \in Caller : /\ Subscribers(id) = {c[1]}
                               /\ call[c].pc = "idle" /\ call'[c].pc = "unmap"]_vars
=============================================================================
