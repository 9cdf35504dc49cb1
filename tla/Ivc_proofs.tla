----------------------------- MODULE Ivc_proofs -----------------------------
(***************************************************************************)
(* Proofs about Ivc, for every number of VMs, vCPUs, keys and frames and   *)
(* for guests that follow the protocol and guests that do not: the types,  *)
(* the ownership of frames, the mappings that guests keep, and the fate of *)
(* unpublished channels.                                                   *)
(***************************************************************************)
EXTENDS Ivc, FiniteSetTheorems, TLAPS

\* What a hypercall in flight holds: the region it was given, the frame it owns
\* or is about to map.
CallsHold ==
    \A c \in Caller :
        /\ call[c].pc \in {"publish", "size", "map"} => call[c].gpa \in Gpa
        /\ call[c].pc \in {"publish", "map"} => call[c].frame \in Frame

\* A channel of the table has a frame.
ChannelsHaveFrame == \A id \in ChannelId : Exists(id) => channels[id].frame \in Frame

\* The owners of a frame: a channel of the table, or a hypercall that is about
\* to insert its channel.
InTable(id, f) == channels[id].frame = f
InCall(c, f) == call[c].pc = "publish" /\ call[c].frame = f

\* A frame has one owner at most, and none if it is free.
OneOwner ==
    \A f \in Frame :
        /\ \A i, j \in ChannelId : InTable(i, f) /\ InTable(j, f) => i = j
        /\ \A c, d \in Caller : InCall(c, f) /\ InCall(d, f) => c = d
        /\ \A i \in ChannelId, c \in Caller : ~(InTable(i, f) /\ InCall(c, f))
        /\ f \in free => /\ \A i \in ChannelId : ~InTable(i, f)
                         /\ \A c \in Caller : ~InCall(c, f)

\* A frame that is not free has an owner: none is leaked.
NoLeak ==
    \A f \in Frame \ free : \/ \E i \in ChannelId : InTable(i, f)
                            \/ \E c \in Caller : InCall(c, f)

IvcInv ==
    /\ TypeOK /\ CallsHold /\ ChannelsHaveFrame /\ UnpublishedHasSubscriber
    /\ OneOwner /\ NoLeak

Channel == [frame : Frame \cup {NoFrame}, base : Gpa \cup {NoGpa},
            subs : [VM -> Gpa \cup {NoGpa}]]
Call == [pc : CallPc, id : ChannelId, gpa : Gpa \cup {NoGpa}, frame : Frame \cup {NoFrame}]

\* An empty slot of the table is of the type of channels.
LEMMA NoChannelType ==
  /\ NoChannel \in Channel /\ NoChannel.frame = NoFrame
  /\ NoChannel.subs = [v \in VM |-> NoGpa]
<1> DEFINE none == [v \in VM |-> NoGpa]
<1>1. none \in [VM -> Gpa \cup {NoGpa}]
  BY Zenon
<1>2. NoChannel = [frame |-> NoFrame, base |-> NoGpa, subs |-> none]
  BY Zenon DEF NoChannel
<1> HIDE DEF none
<1>3. NoChannel \in Channel /\ NoChannel.frame = NoFrame /\ NoChannel.subs = none
  BY Zenon, <1>1, <1>2 DEF Channel
<1> QED
  BY Zenon, <1>3 DEF none

\* A caller without a hypercall is of the type of calls.
LEMMA IdleType == Idle \in Call /\ Idle.pc = "idle"
<1>1. (CHOOSE i \in ChannelId : TRUE) \in ChannelId
  <2>1. PICK v \in VM, k \in Key : TRUE
    BY Zenon, NonEmptyAssumption
  <2>2. <<v, k>> \in ChannelId
    BY Zenon DEF ChannelId
  <2> QED
    BY Zenon, <2>2
<1> QED
  BY Zenon, <1>1 DEF Idle, Call, CallPc

\* The invariant holds before the first hypercall,
LEMMA IvcInit == Init => IvcInv
<1> SUFFICES ASSUME Init PROVE IvcInv
  BY Zenon
<1>1. TypeOK
  BY NoChannelType, IdleType, BoundAssumption, MannersAssumption DEF Init, TypeOK, Channel, Call
<1>2. CallsHold /\ ChannelsHaveFrame /\ UnpublishedHasSubscriber
  BY Zenon, IdleType DEF Init, CallsHold, ChannelsHaveFrame, UnpublishedHasSubscriber, Exists
<1>3. OneOwner /\ NoLeak
  BY Zenon, NoChannelType, IdleType, FrameAssumption DEF Init, OneOwner, NoLeak, InTable, InCall
<1> QED
  BY Zenon, <1>1, <1>2, <1>3 DEF IvcInv

\* when nothing happens,
LEMMA IvcStutter == ASSUME IvcInv, UNCHANGED vars PROVE IvcInv'
  BY DEF IvcInv, vars, TypeOK, CallsHold, ChannelsHaveFrame, UnpublishedHasSubscriber,
     OneOwner, NoLeak, InTable, InCall, Exists, Subscribers

\* A hypercall of vCPU c moves to another point, or returns.
LEMMA CallMoves ==
  ASSUME TypeOK, NEW c \in Caller, NEW k \in Call, call' = [call EXCEPT ![c] = k]
  PROVE  /\ call' \in [Caller -> Call]
         /\ \A d \in Caller : call'[d] = IF d = c THEN k ELSE call[d]
  BY Zenon DEF TypeOK, Call

\* A step that replaces channel id by ch, where ch keeps the frame or is dropped.
LEMMA TableStep ==
  ASSUME IvcInv, NEW c \in Caller, NEW id \in ChannelId, NEW ch \in Channel, NEW k \in Call,
         Exists(id), call[c].pc # "publish",
         channels' = [channels EXCEPT ![id] = ch],
         \/ ch.frame = channels[id].frame /\ free' = free
         \/ ch = NoChannel /\ free' = free \cup {channels[id].frame},
         ch # NoChannel /\ ch.base = NoGpa => \E v \in VM : ch.subs[v] # NoGpa,
         call' = [call EXCEPT ![c] = k], k.pc # "publish",
         k.pc \in {"size", "map"} => k.gpa \in Gpa, k.pc = "map" => k.frame \in Frame,
         UNCHANGED <<mapped, lastGpa, careful>>
  PROVE  IvcInv'
<1> USE DEF IvcInv
<1>0. channels \in [ChannelId -> Channel] /\ call \in [Caller -> Call]
  BY Zenon DEF TypeOK, Channel, Call
<1>1. PICK old \in Frame : old = channels[id].frame
  BY Zenon DEF ChannelsHaveFrame
<1>2. /\ call' \in [Caller -> Call]
      /\ \A d \in Caller : call'[d] = IF d = c THEN k ELSE call[d]
  BY Zenon, CallMoves
<1>3. /\ channels' \in [ChannelId -> Channel]
      /\ \A i \in ChannelId : channels'[i] = IF i = id THEN ch ELSE channels[i]
  BY Zenon, <1>0
<1>4. TypeOK'
  BY Zenon, <1>1, <1>2, <1>3 DEF TypeOK, Call, Channel
<1>5. CallsHold'
  BY Zenon, <1>2 DEF CallsHold
<1>6. ChannelsHaveFrame' /\ UnpublishedHasSubscriber'
  BY <1>1, <1>3 DEF ChannelsHaveFrame, UnpublishedHasSubscriber, Exists, Subscribers
<1>7. OneOwner' /\ NoLeak'
  <2>1. \A e \in Frame : \A i \in ChannelId \ {id} : InTable(i, e)' <=> InTable(i, e)
    BY Zenon, <1>3 DEF InTable
  <2>2. \A e \in Frame : \A d \in Caller : InCall(d, e)' <=> InCall(d, e)
    BY Zenon, <1>2 DEF InCall
  <2>3. \A e \in Frame : InTable(id, e) <=> e = old
    BY Zenon, <1>1 DEF InTable
  <2>4. CASE ch.frame = channels[id].frame /\ free' = free
    <3>1. \A e \in Frame : InTable(id, e)' <=> e = old
      BY Zenon, <1>1, <1>3, <2>4 DEF InTable
    <3> QED
      BY <2>1, <2>2, <2>3, <2>4, <3>1 DEF OneOwner, NoLeak
  <2>5. CASE ch = NoChannel /\ free' = free \cup {channels[id].frame}
    <3>1. \A e \in Frame : ~InTable(id, e)'
      BY Zenon, <1>3, <2>5, NoChannelType, FrameAssumption DEF InTable
    <3> QED
      BY <1>1, <2>1, <2>2, <2>3, <2>5, <3>1 DEF OneOwner, NoLeak
  <2> QED BY Zenon, <2>4, <2>5
<1> QED
  BY Zenon, <1>4, <1>5, <1>6, <1>7

\* A step that leaves the table and the frames alone.
LEMMA CallStep ==
  ASSUME IvcInv, NEW c \in Caller, NEW k \in Call, call[c].pc # "publish",
         call' = [call EXCEPT ![c] = k], k.pc # "publish",
         k.pc \in {"size", "map"} => k.gpa \in Gpa, k.pc = "map" => k.frame \in Frame,
         mapped' \subseteq VM \X Gpa \X Frame, lastGpa' \in [VM -> 0 .. MaxGpa],
         UNCHANGED <<channels, free, careful>>
  PROVE  IvcInv'
<1> USE DEF IvcInv
<1>1. /\ call' \in [Caller -> Call]
      /\ \A d \in Caller : call'[d] = IF d = c THEN k ELSE call[d]
  BY Zenon, CallMoves
<1>2. TypeOK' /\ CallsHold'
  BY Zenon, <1>1 DEF TypeOK, Call, CallsHold
<1>3. ChannelsHaveFrame' /\ UnpublishedHasSubscriber'
  BY Zenon DEF ChannelsHaveFrame, UnpublishedHasSubscriber, Exists, Subscribers
<1>4. OneOwner' /\ NoLeak'
  BY <1>1 DEF OneOwner, NoLeak, InTable, InCall
<1> QED
  BY Zenon, <1>2, <1>3, <1>4

\* Every step of a hypercall keeps IvcInv.
LEMMA IvcStep == ASSUME IvcInv, NEW c \in Caller, execute(c) PROVE IvcInv'
<1> USE DEF IvcInv
<1>0. /\ channels \in [ChannelId -> Channel] /\ call \in [Caller -> Call]
      /\ c[1] \in VM /\ NoGpa \notin Gpa
  BY DEF TypeOK, Channel, Call, Caller, NoGpa, Gpa
<1>1. ASSUME NEW key \in Key, Publish(c, key) PROVE IvcInv'
  <2> DEFINE id == <<c[1], key>>
             gpa == lastGpa[c[1]] + 1
  <2>1. /\ id \in ChannelId /\ gpa \in Gpa
        /\ lastGpa' \in [VM -> 0 .. MaxGpa]
        /\ UNCHANGED <<channels, careful>>
    BY <1>0, <1>1, BoundAssumption DEF Publish, ChannelId, TypeOK, Gpa
  <2> HIDE DEF gpa, id
  <2>2. CASE UNCHANGED <<free, mapped, call>>
    <3>1. UNCHANGED <<free, mapped, call>>
      BY Zenon, <2>2
    <3> QED
      <4>1. TypeOK' /\ CallsHold'
        BY Zenon, <2>1, <3>1 DEF TypeOK, CallsHold
      <4>2. ChannelsHaveFrame' /\ UnpublishedHasSubscriber'
        BY Zenon, <2>1 DEF ChannelsHaveFrame, UnpublishedHasSubscriber, Exists, Subscribers
      <4>3. OneOwner' /\ NoLeak'
        BY <2>1, <3>1 DEF OneOwner, NoLeak, InTable, InCall
      <4> QED
        BY Zenon, <4>1, <4>2, <4>3
  <2>3. CASE ~UNCHANGED <<free, mapped, call>>
    <3>1. PICK f \in free : /\ free' = free \ {f}
                            /\ mapped' = mapped \cup {<<c[1], gpa, f>>}
                            /\ call' = [call EXCEPT ![c] =
                                 [pc |-> "publish", id |-> id, gpa |-> gpa, frame |-> f]]
      BY <1>1, <2>3, Zenon DEF Publish, map_region, Goto, gpa, id
    <3>2. f \in Frame
      BY Zenon DEF TypeOK
    <3> DEFINE k == [pc |-> "publish", id |-> id, gpa |-> gpa, frame |-> f]
    <3>3. k \in Call /\ k.pc = "publish" /\ k.gpa = gpa /\ k.frame = f
      BY Zenon, <2>1, <3>2 DEF Call, CallPc
    <3> HIDE DEF k
    <3>4. /\ call' \in [Caller -> Call]
          /\ \A d \in Caller : call'[d] = IF d = c THEN k ELSE call[d]
      BY Zenon, <3>1, <3>3, CallMoves DEF k
    <3>5. TypeOK'
      BY <1>0, <2>1, <3>1, <3>2, <3>4 DEF TypeOK, Call
    <3>6. CallsHold' /\ ChannelsHaveFrame' /\ UnpublishedHasSubscriber'
      BY Zenon, <2>1, <3>2, <3>3, <3>4 DEF CallsHold, ChannelsHaveFrame, UnpublishedHasSubscriber,
         Exists, Subscribers
    <3>7. OneOwner' /\ NoLeak'
      <4>1. /\ \A e \in Frame : \A i \in ChannelId : InTable(i, e)' <=> InTable(i, e)
            /\ \A e \in Frame : \A d \in Caller \ {c} : InCall(d, e)' <=> InCall(d, e)
            /\ \A e \in Frame : InCall(c, e)' <=> e = f
            /\ \A e \in Frame : ~InCall(c, e)
        BY Zenon, <1>1, <2>1, <3>3, <3>4 DEF InTable, InCall, Publish
      <4> QED
        BY <3>1, <3>2, <4>1 DEF OneOwner, NoLeak
    <3> QED
      BY Zenon, <3>5, <3>6, <3>7
  <2> QED BY Zenon, <2>2, <2>3
<1>2. CASE PublishFault(c)
  <2> DEFINE f == call[c].frame
  <2>1. /\ f \in Frame /\ InCall(c, f) /\ free' = free \cup {f}
        /\ call' = [call EXCEPT ![c] = Idle]
        /\ UNCHANGED <<channels, mapped, lastGpa, careful>>
    BY Zenon, <1>2, FrameAssumption DEF PublishFault, CallsHold, Drop, Return, InCall
  <2>2. /\ call' \in [Caller -> Call]
        /\ \A d \in Caller : call'[d] = IF d = c THEN Idle ELSE call[d]
    BY Zenon, <2>1, IdleType, CallMoves
  <2> HIDE DEF f
  <2>3. TypeOK'
    BY Zenon, <2>1, <2>2 DEF TypeOK, Call
  <2>4. CallsHold' /\ ChannelsHaveFrame' /\ UnpublishedHasSubscriber'
    BY Zenon, <2>1, <2>2, IdleType DEF CallsHold, ChannelsHaveFrame, UnpublishedHasSubscriber,
       Exists, Subscribers
  <2>5. OneOwner' /\ NoLeak'
    <3>1. /\ \A e \in Frame : \A i \in ChannelId : InTable(i, e)' <=> InTable(i, e)
          /\ \A e \in Frame : \A d \in Caller \ {c} : InCall(d, e)' <=> InCall(d, e)
          /\ \A e \in Frame : InCall(c, e) <=> e = f
          /\ \A e \in Frame : ~InCall(c, e)'
      BY Zenon, <1>2, <2>1, <2>2, IdleType DEF InTable, InCall, f
    <3> QED
      BY <2>1, <3>1 DEF OneOwner, NoLeak
  <2> QED
    BY Zenon, <2>3, <2>4, <2>5
<1>3. CASE insert_channel(c)
  <2>1. PICK id \in ChannelId, f \in Frame, old \in Frame \cup {NoFrame} :
          id = call[c].id /\ f = call[c].frame /\ old = channels[id].frame
    BY Zenon, <1>0, <1>3 DEF insert_channel, CallsHold, Call, Channel
  <2>2. PICK gpa \in Gpa : gpa = call[c].gpa
    BY Zenon, <1>3 DEF insert_channel, CallsHold
  <2> DEFINE ch == [frame |-> f, base |-> gpa, subs |-> NoChannel.subs]
  <2>3. /\ channels' = [channels EXCEPT ![id] = ch]
        /\ free' = IF old = NoFrame THEN free ELSE free \cup {old}
        /\ call' = [call EXCEPT ![c] = Idle]
        /\ UNCHANGED <<mapped, lastGpa, careful>>
    BY Zenon, <1>3, <2>1, <2>2 DEF insert_channel, Drop, Replaced, Return
  <2>4. /\ call' \in [Caller -> Call]
        /\ \A d \in Caller : call'[d] = IF d = c THEN Idle ELSE call[d]
    BY Zenon, <2>3, IdleType, CallMoves
  <2>5. ch \in Channel /\ ch.frame = f /\ ch.base = gpa
    BY Zenon, <2>1, NoChannelType DEF Channel
  <2> HIDE DEF ch
  <2>6. /\ channels' \in [ChannelId -> Channel]
        /\ \A i \in ChannelId : channels'[i] = IF i = id THEN ch ELSE channels[i]
    BY Zenon, <1>0, <2>3, <2>5
  <2>7. TypeOK'
    BY Zenon, <2>3, <2>4, <2>6 DEF TypeOK, Call, Channel
  <2>8. CallsHold' /\ ChannelsHaveFrame' /\ UnpublishedHasSubscriber'
    BY <1>0, <2>3, <2>4, <2>5, <2>6, IdleType
    DEF CallsHold, ChannelsHaveFrame, UnpublishedHasSubscriber, Exists, Subscribers
  <2>9. OneOwner' /\ NoLeak'
    <3>1. \A e \in Frame :
            /\ \A i \in ChannelId \ {id} : InTable(i, e)' <=> InTable(i, e)
            /\ InTable(id, e) <=> e = old
            /\ InTable(id, e)' <=> e = f
      BY Zenon, <2>1, <2>5, <2>6 DEF InTable
    <3>2. \A e \in Frame :
            /\ \A d \in Caller \ {c} : InCall(d, e)' <=> InCall(d, e)
            /\ InCall(c, e) <=> e = f
            /\ ~InCall(c, e)'
      BY Zenon, <1>3, <2>1, <2>4, IdleType DEF InCall, insert_channel
    <3> QED
      BY <2>3, <3>1, <3>2, FrameAssumption DEF OneOwner, NoLeak
  <2> QED
    BY Zenon, <2>7, <2>8, <2>9
<1>4. ASSUME NEW key \in Key, unpublish_channel(c, key) PROVE IvcInv'
  <2> DEFINE id == <<c[1], key>>
             ch == channels[id]
  <2>1. id \in ChannelId /\ call[c].pc = "idle" /\ Exists(id) /\ ch \in Channel
    BY Zenon, <1>0, <1>4 DEF unpublish_channel, ChannelId
  <2>2. ch.frame \in Frame
    BY Zenon, <2>1 DEF ChannelsHaveFrame
  <2>3. PICK k \in Call : /\ call' = [call EXCEPT ![c] = k]
                          /\ k.pc \in {"idle", "unmap"}
    <3>1. CASE ch.base = NoGpa
      <4>1. call' = [call EXCEPT ![c] = call[c]]
        BY Zenon, <1>0, <1>4, <3>1 DEF unpublish_channel
      <4> QED
        BY Zenon, <1>0, <2>1, <4>1
    <3>2. CASE ch.base # NoGpa
      <4> DEFINE k == [pc |-> "unmap", id |-> id, gpa |-> ch.base, frame |-> ch.frame]
      <4>1. call' = [call EXCEPT ![c] = k]
        BY Zenon, <1>4, <3>2 DEF unpublish_channel, Goto
      <4>2. k \in Call /\ k.pc = "unmap"
        BY Zenon, <2>1 DEF Call, CallPc, Channel
      <4> QED
        BY Zenon, <4>1, <4>2
    <3> QED BY Zenon, <3>1, <3>2
  <2>4. UNCHANGED <<mapped, lastGpa, careful>>
    BY Zenon, <1>4 DEF unpublish_channel
  <2>5. CASE StaysInTable(id)
    <3> DEFINE kept == [ch EXCEPT !.base = NoGpa]
    <3>1. channels' = [channels EXCEPT ![id] = kept] /\ free' = free
      BY Zenon, <1>4, <2>5 DEF unpublish_channel, Drop
    <3>2. kept \in Channel /\ kept.frame = ch.frame /\ kept.subs = ch.subs
      BY Zenon, <2>1 DEF Channel
    <3>3. \E v \in VM : ch.subs[v] # NoGpa
      BY Zenon, <2>5 DEF StaysInTable, Subscribers
    <3> HIDE DEF kept, id
    <3> QED
      BY Zenon, <2>1, <2>3, <2>4, <3>1, <3>2, <3>3, TableStep
  <2>6. CASE ~StaysInTable(id)
    <3>1. channels' = [channels EXCEPT ![id] = NoChannel] /\ free' = free \cup {ch.frame}
      BY Zenon, <1>4, <2>2, <2>6, FrameAssumption DEF unpublish_channel, Drop
    <3> HIDE DEF id
    <3> QED
      BY Zenon, <2>1, <2>3, <2>4, <3>1, NoChannelType, TableStep
  <2> QED BY Zenon, <2>5, <2>6
<1>5. ASSUME NEW id \in ChannelId, get_channel_size(c, id) PROVE IvcInv'
  <2> DEFINE gpa == lastGpa[c[1]] + 1
             k == [pc |-> "size", id |-> id, gpa |-> gpa, frame |-> NoFrame]
  <2>1. gpa \in Gpa /\ lastGpa' \in [VM -> 0 .. MaxGpa] /\ call[c].pc = "idle"
    BY <1>0, <1>5, BoundAssumption DEF get_channel_size, TypeOK, Gpa
  <2>2. call' = [call EXCEPT ![c] = k] /\ UNCHANGED <<channels, free, mapped, careful>>
    BY Zenon, <1>5 DEF get_channel_size, Goto
  <2> HIDE DEF gpa
  <2>3. k \in Call /\ k.pc = "size" /\ k.gpa = gpa
    BY Zenon, <2>1 DEF Call, CallPc
  <2>4. mapped' \subseteq VM \X Gpa \X Frame
    BY Zenon, <2>2 DEF TypeOK
  <2> HIDE DEF k
  <2> QED
    BY Zenon, <2>1, <2>2, <2>3, <2>4, CallStep
<1>6. CASE subscribe_to_channel_of_publisher(c)
  <2>1. PICK id \in ChannelId, gpa \in Gpa : id = call[c].id /\ gpa = call[c].gpa
    BY Zenon, <1>0, <1>6 DEF subscribe_to_channel_of_publisher, CallsHold, Call
  <2>2. call[c].pc = "size" /\ UNCHANGED <<free, mapped, lastGpa, careful>>
    BY Zenon, <1>6 DEF subscribe_to_channel_of_publisher
  <2>3. CASE Exists(id)
    <3> DEFINE ch == channels[id]
               joined == add_subscriber(ch, c[1], gpa)
               k == [pc |-> "map", id |-> id, gpa |-> gpa, frame |-> ch.frame]
    <3>1. channels' = [channels EXCEPT ![id] = joined] /\ call' = [call EXCEPT ![c] = k]
      BY Zenon, <1>6, <2>1, <2>3 DEF subscribe_to_channel_of_publisher, StillThere, Goto
    <3>2. ch \in Channel /\ ch.frame \in Frame
      BY Zenon, <1>0, <2>3 DEF ChannelsHaveFrame
    <3>3. k \in Call /\ k.pc = "map" /\ k.gpa = gpa /\ k.frame = ch.frame
      BY Zenon, <3>2 DEF Call, CallPc
    <3>4. /\ joined \in Channel /\ joined.frame = ch.frame
          /\ joined.subs[c[1]] # NoGpa
      <4> DEFINE mine == IF ch.subs[c[1]] = NoGpa THEN gpa ELSE ch.subs[c[1]]
                 subs == [ch.subs EXCEPT ![c[1]] = mine]
      <4>1. subs \in [VM -> Gpa \cup {NoGpa}] /\ subs[c[1]] # NoGpa
        BY Zenon, <1>0, <3>2 DEF Channel
      <4>2. joined = [ch EXCEPT !.subs = subs]
        BY Zenon, <1>0, <3>2 DEF add_subscriber, Channel
      <4> HIDE DEF subs, ch, joined
      <4> QED
        BY Zenon, <3>2, <4>1, <4>2 DEF Channel
    <3> HIDE DEF k, joined
    <3> QED
      BY Zenon, <1>0, <2>2, <2>3, <3>1, <3>2, <3>3, <3>4, TableStep
  <2>4. CASE ~Exists(id)
    <3>1. call' = [call EXCEPT ![c] = Idle] /\ UNCHANGED channels
      BY Zenon, <1>6, <2>1, <2>4 DEF subscribe_to_channel_of_publisher, StillThere, Return
    <3> QED
      BY Zenon, <2>2, <3>1, IdleType, CallStep DEF TypeOK
  <2> QED BY Zenon, <2>3, <2>4
<1>7. CASE SubscribeMap(c)
  <2>1. /\ call[c].pc = "map" /\ call' = [call EXCEPT ![c] = Idle]
        /\ mapped' \subseteq mapped \cup {<<c[1], call[c].gpa, call[c].frame>>}
        /\ UNCHANGED <<channels, free, lastGpa, careful>>
    BY Zenon, <1>7 DEF SubscribeMap, map_region, Return
  <2>2. mapped' \subseteq VM \X Gpa \X Frame
    BY <1>0, <2>1 DEF TypeOK, CallsHold
  <2> QED
    BY Zenon, <2>1, <2>2, IdleType, CallStep DEF TypeOK
<1>8. ASSUME NEW id \in ChannelId, unsubscribe_from_channel_of_publisher(c, id) PROVE IvcInv'
  <2> DEFINE ch == channels[id]
             left == [ch EXCEPT !.subs[c[1]] = NoGpa]
             k == [pc |-> "unmap", id |-> id, gpa |-> ch.subs[c[1]], frame |-> ch.frame]
  <2>1. /\ call[c].pc = "idle" /\ Exists(id) /\ ch \in Channel /\ ch.frame \in Frame
        /\ call' = [call EXCEPT ![c] = k] /\ UNCHANGED <<mapped, lastGpa, careful>>
    BY Zenon, <1>0, <1>8 DEF unsubscribe_from_channel_of_publisher, Goto, ChannelsHaveFrame
  <2>2. k \in Call /\ k.pc = "unmap"
    BY Zenon, <1>0, <2>1 DEF Call, CallPc, Channel
  <2>3. left \in Channel /\ left.frame = ch.frame /\ left.base = ch.base
    <3> DEFINE subs == [ch.subs EXCEPT ![c[1]] = NoGpa]
    <3>1. subs \in [VM -> Gpa \cup {NoGpa}]
      BY Zenon, <1>0, <2>1 DEF Channel
    <3>2. left = [ch EXCEPT !.subs = subs]
      BY Zenon, <1>0, <2>1 DEF Channel
    <3> HIDE DEF subs, ch, left
    <3> QED
      BY Zenon, <2>1, <3>1, <3>2 DEF Channel
  <2>4. CASE LastLeaves(left)
    <3>1. channels' = [channels EXCEPT ![id] = NoChannel] /\ free' = free \cup {ch.frame}
      BY Zenon, <1>8, <2>1, <2>3, <2>4, FrameAssumption
      DEF unsubscribe_from_channel_of_publisher, Drop
    <3> HIDE DEF k, left
    <3> QED
      BY Zenon, <2>1, <2>2, <3>1, NoChannelType, TableStep
  <2>5. CASE ~LastLeaves(left)
    <3>1. channels' = [channels EXCEPT ![id] = left] /\ free' = free
      BY Zenon, <1>8, <2>5 DEF unsubscribe_from_channel_of_publisher, Drop
    <3>2. left.base = NoGpa => \E v \in VM : left.subs[v] # NoGpa
      BY Zenon, <2>5 DEF LastLeaves
    <3> HIDE DEF k, left
    <3> QED
      BY Zenon, <2>1, <2>2, <2>3, <3>1, <3>2, TableStep
  <2> QED BY Zenon, <2>4, <2>5
<1>9. CASE Unmap(c)
  <2>1. /\ call[c].pc = "unmap" /\ call' = [call EXCEPT ![c] = Idle]
        /\ mapped' \subseteq mapped
        /\ UNCHANGED <<channels, free, lastGpa, careful>>
    BY Zenon, <1>9 DEF Unmap, unmap_region, Return
  <2>2. mapped' \subseteq VM \X Gpa \X Frame
    BY Zenon, <2>1 DEF TypeOK
  <2> QED
    BY Zenon, <2>1, <2>2, IdleType, CallStep DEF TypeOK
<1> QED
  BY Zenon, <1>1, <1>2, <1>3, <1>4, <1>5, <1>6, <1>7, <1>8, <1>9 DEF execute

\* It holds always.
LEMMA IvcInvariant == Spec => []IvcInv
<1>1. Init => IvcInv
  BY Zenon, IvcInit
<1>2. IvcInv /\ [Next]_vars => IvcInv'
  BY Zenon, IvcStep, IvcStutter DEF Next
<1> QED
  BY <1>1, <1>2, PTL DEF Spec

\* The channel table, the mappings and the hypercalls in flight keep their
\* types: in particular no hypercall maps the frame of a channel that is gone.
THEOREM IvcTypeCorrect == Spec => []TypeOK
<1>1. IvcInv => TypeOK
  BY Zenon DEF IvcInv
<1> QED
  BY <1>1, IvcInvariant, PTL

\* An unpublished channel stays in the table only while it has a subscriber,
\* whatever the interleaving of the hypercalls of any number of VMs.
THEOREM IvcUnpublished == Spec => []UnpublishedHasSubscriber
<1>1. IvcInv => UnpublishedHasSubscriber
  BY Zenon DEF IvcInv
<1> QED
  BY <1>1, IvcInvariant, PTL

\* No frame is leaked or freed twice: a frame is free or has exactly one owner,
\* even when a key is published again, a channel unpublished twice or a write
\* to the guest fails.
THEOREM IvcFrameOwnership == Spec => []FrameOwnership
<1>1. ASSUME IvcInv, NEW f \in Frame
      PROVE  Cardinality(Owners(f)) = IF f \in free THEN 0 ELSE 1
  <2> USE DEF IvcInv
  <2>1. CASE f \in free
    <3>1. Owners(f) = {}
      BY <1>1, <2>1 DEF OneOwner, Owners, InTable, InCall
    <3> QED
      BY Zenon, <2>1, <3>1, FS_EmptySet
  <2>2. CASE f \notin free
    <3>1. \E o : Owners(f) = {o}
      <4>1. CASE \E i \in ChannelId : InTable(i, f)
        <5>1. PICK i \in ChannelId : InTable(i, f)
          BY Zenon, <4>1
        <5>2. Owners(f) = {<<"table", i>>}
          BY <1>1, <5>1 DEF OneOwner, Owners, InTable, InCall
        <5> QED BY Zenon, <5>2
      <4>2. CASE \E c \in Caller : InCall(c, f)
        <5>1. PICK c \in Caller : InCall(c, f)
          BY <4>2
        <5>2. Owners(f) = {<<"call", c>>}
          BY <1>1, <5>1 DEF OneOwner, Owners, InTable, InCall
        <5> QED BY Zenon, <5>2
      <4> QED
        BY Zenon, <1>1, <2>2, <4>1, <4>2 DEF NoLeak
    <3> QED
      BY Zenon, <2>2, <3>1, FS_Singleton
  <2> QED BY Zenon, <2>1, <2>2
<1>2. IvcInv => FrameOwnership
  BY Zenon, <1>1 DEF FrameOwnership
<1> QED
  BY <1>2, IvcInvariant, PTL

-----------------------------------------------------------------------------
(* Careful guests.                                                         *)

\* A VM is in one hypercall at a time.
OneCall ==
    \A c, d \in Caller :
        c[1] = d[1] /\ call[c].pc # "idle" /\ call[d].pc # "idle" => c = d

\* The key a hypercall is about to insert is not in use, and its region maps
\* the frame of the new channel only.
PublishesNew ==
    \A c \in Caller : call[c].pc = "publish" =>
        /\ call[c].id[1] = c[1] /\ ~Exists(call[c].id)
        /\ \A m \in mapped : m[1] = c[1] /\ m[2] = call[c].gpa => m[3] = call[c].frame

\* A subscription is recorded between the two steps that make it, and what it
\* is about to map is the frame of a channel that is still in the table.
SubscribesOnce ==
    \A c \in Caller :
        /\ call[c].pc = "size" => channels[call[c].id].subs[c[1]] = NoGpa
        /\ call[c].pc = "map" => /\ channels[call[c].id].frame = call[c].frame
                                 /\ channels[call[c].id].subs[c[1]] = call[c].gpa

\* alloc_ivc_channel has given out every region in use, so the next is fresh.
RegionsGiven ==
    /\ \A m \in mapped : m[2] <= lastGpa[m[1]]
    /\ \A c \in Caller :
         call[c].pc \in {"publish", "size", "map"} => call[c].gpa <= lastGpa[c[1]]

\* Channel id accounts for the mapping m; hypercall c does.
ByChannel(m, id) ==
    /\ channels[id].frame = m[3]
    /\ \/ id[1] = m[1] /\ channels[id].base = m[2]
       \/ channels[id].subs[m[1]] = m[2]
ByCall(m, c) ==
    /\ c[1] = m[1] /\ call[c].pc \in {"publish", "unmap"} /\ call[c].gpa = m[2]
Accounted ==
    \A m \in mapped : \/ \E id \in ChannelId : ByChannel(m, id)
                      \/ \E c \in Caller : ByCall(m, c)

CarefulParts == OneCall /\ PublishesNew /\ SubscribesOnce /\ RegionsGiven /\ Accounted
CarefulInv == careful => CarefulParts

\* No mapping is there at the start.
LEMMA CarefulInit == Init => CarefulInv
  BY Zenon, IdleType DEF Init, CarefulInv, CarefulParts, OneCall, PublishesNew, SubscribesOnce,
     RegionsGiven, Accounted

\* The steps that change neither the table nor the mappings.
LEMMA CarefulCall ==
  ASSUME IvcInv, CarefulParts, NEW c \in Caller, NEW k \in Call,
         \A d \in Caller : call'[d] = IF d = c THEN k ELSE call[d],
         channels' = channels, mapped' = mapped,
         \A v \in VM : lastGpa'[v] \in Nat /\ lastGpa[v] \in Nat /\ lastGpa[v] <= lastGpa'[v],
         call[c].pc \notin {"publish", "unmap"},
         k.pc # "idle" /\ k # call[c] =>
             \A d \in Caller : d[1] = c[1] /\ d # c => call[d].pc = "idle",
         \/ k = call[c]
         \/ k.pc = "idle"
         \/ /\ k.pc = "size" /\ channels[k.id].subs[c[1]] = NoGpa
            /\ k.gpa <= lastGpa'[c[1]]
  PROVE  CarefulParts'
<1> USE DEF CarefulParts
<1>0. mapped \subseteq VM \X Gpa \X Frame /\ c[1] \in VM /\ \A d \in Caller : d[1] \in VM
  BY Zenon DEF IvcInv, TypeOK, Caller
<1>1. OneCall'
  BY DEF OneCall
<1>2. PublishesNew'
  BY DEF PublishesNew, Exists
<1>3. SubscribesOnce'
  BY DEF SubscribesOnce
<1>4. RegionsGiven'
  <2>1. \A m \in mapped : m[1] \in VM /\ m[2] \in Nat
    BY <1>0 DEF Gpa
  <2>2. \A d \in Caller : call[d].gpa \in Nat
    BY DEF IvcInv, TypeOK, Gpa, NoGpa
  <2>3. \A m \in mapped' : m[2] <= lastGpa'[m[1]]
    BY <2>1 DEF RegionsGiven
  <2>4. ASSUME NEW d \in Caller, call'[d].pc \in {"publish", "size", "map"}
        PROVE  call'[d].gpa <= lastGpa'[d[1]]
    BY <1>0, <2>2, <2>4 DEF RegionsGiven
  <2> QED
    BY Zenon, <2>3, <2>4 DEF RegionsGiven
<1>5. Accounted'
  BY DEF Accounted, ByChannel, ByCall
<1> QED
  BY Zenon, <1>1, <1>2, <1>3, <1>4, <1>5

\* A step of c that replaces channel id by ch: the other hypercalls find what
\* they rely on, and what id or c accounted for is accounted for still.
TableMove(c, k, id, ch) ==
    /\ \A d \in Caller : call'[d] = IF d = c THEN k ELSE call[d]
    /\ \A i \in ChannelId : channels'[i] = IF i = id THEN ch ELSE channels[i]
    /\ mapped' = mapped /\ lastGpa' = lastGpa
    /\ \A d \in Caller \ {c} : d[1] = c[1] => call[d].pc = "idle"
    /\ k.pc \in {"idle", "unmap", "map"}
    /\ k.pc = "map" => /\ k.id = id /\ ch.frame = k.frame /\ ch.subs[c[1]] = k.gpa
                       /\ k.gpa <= lastGpa[c[1]]
    /\ \A d \in Caller \ {c} : call[d].id = id =>
         /\ call[d].pc # "publish"
         /\ call[d].pc = "size" => ch.subs[d[1]] = NoGpa
         /\ call[d].pc = "map" => ch.frame = call[d].frame /\ ch.subs[d[1]] = call[d].gpa
    /\ \A m \in mapped :
         ByChannel(m, id) \/ ByCall(m, c) => ByChannel(m, id)' \/ ByCall(m, c)'

\* The steps that change one slot of the table.
LEMMA CarefulTable ==
  ASSUME IvcInv, CarefulParts, NEW c \in Caller, NEW k \in Call, NEW id \in ChannelId, NEW ch,
         TableMove(c, k, id, ch)
  PROVE  CarefulParts'
<1> USE DEF TableMove
<1> USE DEF CarefulParts
<1>0. call \in [Caller -> Call] /\ \A d \in Caller : call[d].id \in ChannelId
  BY Zenon DEF IvcInv, TypeOK, Call
<1>1. OneCall'
  BY DEF OneCall
<1>2. PublishesNew'
  BY <1>0 DEF PublishesNew, Exists
<1>3. SubscribesOnce'
  <2> SUFFICES ASSUME NEW d \in Caller
               PROVE  /\ call'[d].pc = "size" => channels'[call'[d].id].subs[d[1]] = NoGpa
                      /\ call'[d].pc = "map" => /\ channels'[call'[d].id].frame = call'[d].frame
                                                /\ channels'[call'[d].id].subs[d[1]] = call'[d].gpa
    BY Zenon DEF SubscribesOnce
  <2>1. CASE d = c
    BY <2>1
  <2>2. CASE d # c /\ call[d].id = id
    BY <2>2
  <2>3. CASE d # c /\ call[d].id # id
    BY <1>0, <2>3 DEF SubscribesOnce
  <2> QED BY Zenon, <2>1, <2>2, <2>3
<1>4. RegionsGiven'
  BY Zenon DEF RegionsGiven
<1>5. Accounted'
  <2> SUFFICES ASSUME NEW m \in mapped
               PROVE  \/ \E i \in ChannelId : ByChannel(m, i)'
                      \/ \E d \in Caller : ByCall(m, d)'
    BY Zenon DEF Accounted
  <2>1. CASE ByChannel(m, id) \/ ByCall(m, c)
    BY Zenon, <2>1
  <2>2. CASE \E i \in ChannelId \ {id} : ByChannel(m, i)
    BY <2>2 DEF ByChannel
  <2>3. CASE \E d \in Caller \ {c} : ByCall(m, d)
    BY Zenon, <2>3 DEF ByCall
  <2> QED
    BY Zenon, <2>1, <2>2, <2>3 DEF Accounted
<1> QED
  BY Zenon, <1>1, <1>2, <1>3, <1>4, <1>5

\* A careful VM that starts a hypercall is in no other.
LEMMA CarefulIdle ==
  ASSUME CarefulParts, careful, NEW c \in Caller, Polite(c) \/ call[c].pc # "idle"
  PROVE  \A d \in Caller \ {c} : d[1] = c[1] => call[d].pc = "idle"
  BY Zenon DEF CarefulParts, OneCall, Polite

\* Publish maps a region that alloc_ivc_channel has just given out.
LEMMA CarefulPublish ==
  ASSUME IvcInv, CarefulParts, careful, NEW c \in Caller, NEW key \in Key, Publish(c, key)
  PROVE  CarefulParts'
<1> USE DEF IvcInv
<1> DEFINE id == <<c[1], key>>
<1>0. /\ call \in [Caller -> Call] /\ c[1] \in VM /\ \A d \in Caller : d[1] \in VM
      /\ mapped \subseteq VM \X Gpa \X Frame /\ lastGpa \in [VM -> Nat]
  BY BoundAssumption DEF TypeOK, Call, Caller
<1>1. PICK gpa \in Gpa : gpa = lastGpa[c[1]] + 1
  BY <1>0, BoundAssumption DEF Publish, Gpa
<1>2. /\ id \in ChannelId /\ gpa \in Gpa /\ id[1] = c[1]
      /\ call[c].pc = "idle" /\ ~Exists(id)
      /\ lastGpa' = [lastGpa EXCEPT ![c[1]] = gpa] /\ channels' = channels
  BY Zenon, <1>0, <1>1 DEF Publish, ChannelId
<1>3. \A d \in Caller \ {c} : d[1] = c[1] => call[d].pc = "idle"
  BY Zenon, CarefulIdle DEF Publish
<1>4. \A v \in VM : lastGpa'[v] \in Nat /\ lastGpa[v] \in Nat /\ lastGpa[v] <= lastGpa'[v]
  BY <1>0, <1>1, <1>2
<1>5. lastGpa'[c[1]] = gpa /\ gpa > lastGpa[c[1]]
  BY <1>0, <1>1, <1>2
<1> HIDE DEF id
<1>6. CASE UNCHANGED <<free, mapped, call>>
  <2>1. call[c] \in Call /\ call' = call /\ mapped' = mapped
    BY Zenon, <1>0, <1>6
  <2>2. \A d \in Caller : call'[d] = IF d = c THEN call[c] ELSE call[d]
    BY Zenon, <2>1
  <2> QED
    BY Zenon, <1>2, <1>4, <2>1, <2>2, CarefulCall
<1>7. CASE ~UNCHANGED <<free, mapped, call>>
  <2>1. PICK f \in free : /\ mapped' = mapped \cup {<<c[1], gpa, f>>}
                          /\ call' = [call EXCEPT ![c] =
                               [pc |-> "publish", id |-> id, gpa |-> gpa, frame |-> f]]
    BY <1>1, <1>7, Zenon DEF Publish, map_region, Goto, id
  <2> DEFINE k == [pc |-> "publish", id |-> id, gpa |-> gpa, frame |-> f]
             new == <<c[1], gpa, f>>
  <2>2. k \in Call /\ k.pc = "publish" /\ k.id = id /\ k.gpa = gpa /\ k.frame = f
    BY Zenon, <1>2 DEF Call, CallPc, TypeOK
  <2>3. new[1] = c[1] /\ new[2] = gpa /\ new[3] = f
    BY Zenon
  <2>4. mapped' = mapped \cup {new} /\ call' = [call EXCEPT ![c] = k]
    BY Zenon, <2>1
  <2> HIDE DEF k, new
  <2>5. \A d \in Caller : call'[d] = IF d = c THEN k ELSE call[d]
    BY Zenon, <2>2, <2>4, CallMoves
  <2>6. \A m \in mapped : m[1] \in VM /\ m[2] \in Nat /\ m[2] <= lastGpa[m[1]]
    BY <1>0 DEF Gpa, CarefulParts, RegionsGiven
  <2>7. \A m \in mapped : m[1] = c[1] => m[2] # gpa
    BY <1>0, <1>5, <2>6
  <2>8. \A d \in Caller : call[d].gpa \in Nat
    BY DEF TypeOK, Gpa, NoGpa
  <2>9. gpa \in Nat
    BY <1>2 DEF Gpa
  <2>10. OneCall'
    BY <1>3, <2>5 DEF CarefulParts, OneCall
  <2>11. PublishesNew'
    BY SMTT(30), <1>2, <1>3, <2>2, <2>3, <2>4, <2>5, <2>7 DEF CarefulParts, PublishesNew, Exists
  <2>12. SubscribesOnce'
    BY <1>2, <2>2, <2>5 DEF CarefulParts, SubscribesOnce
  <2>13. RegionsGiven'
    <3>1. ASSUME NEW m \in mapped' PROVE m[2] <= lastGpa'[m[1]]
      <4>1. CASE m = new
        <5>1. m[2] = gpa /\ lastGpa'[m[1]] = gpa
          BY Zenon, <1>5, <2>3, <4>1
        <5> QED
          BY <2>9, <5>1
      <4>2. CASE m \in mapped
        <5>1. m[1] \in VM /\ m[2] \in Nat /\ m[2] <= lastGpa[m[1]]
          BY Zenon, <2>6, <4>2
        <5> QED
          BY <1>4, <5>1
      <4> QED
        BY Zenon, <2>4, <4>1, <4>2
    <3>2. ASSUME NEW d \in Caller, call'[d].pc \in {"publish", "size", "map"}
          PROVE  call'[d].gpa <= lastGpa'[d[1]]
      <4>1. CASE d = c
        <5>1. call'[d].gpa = gpa /\ lastGpa'[d[1]] = gpa
          BY Zenon, <1>5, <2>2, <2>5, <4>1
        <5> QED
          BY <2>9, <5>1
      <4>2. CASE d # c
        <5>1. /\ call'[d] = call[d] /\ call[d].gpa \in Nat /\ d[1] \in VM
              /\ call[d].gpa <= lastGpa[d[1]]
          BY Zenon, <1>0, <2>5, <2>8, <3>2, <4>2 DEF CarefulParts, RegionsGiven
        <5> QED
          BY <1>4, <5>1
      <4> QED BY Zenon, <4>1, <4>2
    <3> QED
      BY Zenon, <3>1, <3>2 DEF RegionsGiven
  <2>14. Accounted'
    <3>1. ByCall(new, c)'
      BY Zenon, <2>2, <2>3, <2>5 DEF ByCall
    <3>2. ASSUME NEW m \in mapped
          PROVE  \/ \E i \in ChannelId : ByChannel(m, i)'
                 \/ \E d \in Caller : ByCall(m, d)'
      BY Zenon, <1>2, <2>5 DEF CarefulParts, Accounted, ByChannel, ByCall
    <3> QED
      BY Zenon, <2>4, <3>1, <3>2 DEF Accounted
  <2> QED
    BY Zenon, <2>10, <2>11, <2>12, <2>13, <2>14 DEF CarefulParts
<1> QED BY Zenon, <1>6, <1>7

\* insert_channel hands its mapping over to the channel it puts in the table.
LEMMA CarefulInsert ==
  ASSUME IvcInv, CarefulParts, careful, NEW c \in Caller, insert_channel(c)
  PROVE  CarefulParts'
<1>0. /\ call \in [Caller -> Call] /\ channels \in [ChannelId -> Channel]
      /\ \A d \in Caller : call[d].id \in ChannelId
  BY Zenon DEF IvcInv, TypeOK, Call, Channel
<1>1. PICK id \in ChannelId, f \in Frame, gpa \in Gpa :
        id = call[c].id /\ f = call[c].frame /\ gpa = call[c].gpa
  BY Zenon, <1>0 DEF IvcInv, CallsHold, insert_channel
<1> DEFINE ch == [frame |-> f, base |-> gpa, subs |-> NoChannel.subs]
<1>2. /\ channels' = [channels EXCEPT ![id] = ch] /\ call' = [call EXCEPT ![c] = Idle]
      /\ mapped' = mapped /\ lastGpa' = lastGpa /\ call[c].pc = "publish"
  BY Zenon, <1>1 DEF insert_channel, Return
<1>3. ch \in Channel /\ ch.frame = f /\ ch.base = gpa /\ \A v \in VM : ch.subs[v] = NoGpa
  BY Zenon, NoChannelType DEF Channel
<1> HIDE DEF ch
<1>4. \A d \in Caller : call'[d] = IF d = c THEN Idle ELSE call[d]
  BY Zenon, <1>2, IdleType, CallMoves DEF IvcInv
<1>5. \A i \in ChannelId : channels'[i] = IF i = id THEN ch ELSE channels[i]
  BY Zenon, <1>0, <1>2
<1>6. \A d \in Caller \ {c} : d[1] = c[1] => call[d].pc = "idle"
  BY Zenon, <1>2, CarefulIdle
<1>7. id[1] = c[1] /\ channels[id] = NoChannel
      /\ \A m \in mapped : m[1] = c[1] /\ m[2] = gpa => m[3] = f
  BY Zenon, <1>1, <1>2 DEF CarefulParts, PublishesNew, Exists
<1>8. \A d \in Caller \ {c} : call[d].id = id =>
             /\ call[d].pc # "publish"
             /\ call[d].pc = "size" => ch.subs[d[1]] = NoGpa
             /\ call[d].pc = "map" => ch.frame = call[d].frame /\ ch.subs[d[1]] = call[d].gpa
  <2> SUFFICES ASSUME NEW d \in Caller \ {c}, call[d].id = id
               PROVE  /\ call[d].pc # "publish"
                      /\ call[d].pc = "size" => ch.subs[d[1]] = NoGpa
                      /\ call[d].pc = "map" => /\ ch.frame = call[d].frame
                                              /\ ch.subs[d[1]] = call[d].gpa
    BY Zenon
  <2>1. d[1] \in VM
    BY Zenon DEF Caller
  <2>2. call[d].pc # "publish"
    BY Zenon, <1>6, <1>7 DEF CarefulParts, PublishesNew
  <2>3. call[d].pc # "map"
    <3> SUFFICES ASSUME call[d].pc = "map" PROVE FALSE
      BY Zenon
    <3>1. channels[id].frame = call[d].frame /\ call[d].frame \in Frame
      BY Zenon DEF CarefulParts, SubscribesOnce, IvcInv, CallsHold
    <3> QED
      BY Zenon, <1>7, <3>1, NoChannelType, FrameAssumption
  <2> QED
    BY Zenon, <1>3, <2>1, <2>2, <2>3
<1>9. \A m \in mapped :
             ByChannel(m, id) \/ ByCall(m, c) => ByChannel(m, id)' \/ ByCall(m, c)'
  <2> SUFFICES ASSUME NEW m \in mapped, ByChannel(m, id) \/ ByCall(m, c)
               PROVE  ByChannel(m, id)' \/ ByCall(m, c)'
    BY Zenon
  <2>1. m[1] \in VM /\ m[2] \in Gpa /\ m[3] \in Frame
    BY Zenon DEF IvcInv, TypeOK
  <2>2. ~ByChannel(m, id)
    BY Zenon, <1>7, <2>1, NoChannelType, FrameAssumption DEF ByChannel
  <2>3. m[1] = c[1] /\ m[2] = gpa /\ m[3] = f
    BY Zenon, <1>1, <1>7, <2>2 DEF ByCall
  <2> QED
    BY Zenon, <1>3, <1>5, <1>7, <2>3 DEF ByChannel
<1> QED
  <2>1. TableMove(c, Idle, id, ch)
    BY Zenon, <1>2, <1>4, <1>5, <1>6, <1>8, <1>9, IdleType DEF TableMove
  <2> QED
    BY Zenon, <2>1, IdleType, CarefulTable

\* The publisher's mapping passes to the hypercall that will unmap it; the
\* subscribers keep the channel.
LEMMA CarefulUnpublish ==
  ASSUME IvcInv, CarefulParts, careful, NEW c \in Caller, NEW key \in Key,
         unpublish_channel(c, key)
  PROVE  CarefulParts'
<1>0. /\ call \in [Caller -> Call] /\ channels \in [ChannelId -> Channel]
      /\ c[1] \in VM /\ NoGpa \notin Gpa
  BY DEF IvcInv, TypeOK, Call, Channel, Caller, NoGpa, Gpa
<1>1. PICK id \in ChannelId : id = <<c[1], key>> /\ id[1] = c[1]
  <2>1. <<c[1], key>> \in ChannelId /\ <<c[1], key>>[1] = c[1]
    BY Zenon, <1>0 DEF ChannelId
  <2> QED
    BY <2>1, Zenon
<1>2. PICK old \in Channel : old = channels[id]
  BY Zenon, <1>0
<1>3. PICK gpa \in Gpa : gpa = old.base
  BY <1>1, <1>2, Zenon DEF unpublish_channel, Channel
<1> DEFINE ch == IF StaysInTable(id) THEN [old EXCEPT !.base = NoGpa] ELSE NoChannel
           k == [pc |-> "unmap", id |-> id, gpa |-> gpa, frame |-> old.frame]
<1>4. /\ channels' = [channels EXCEPT ![id] = ch] /\ call' = [call EXCEPT ![c] = k]
      /\ mapped' = mapped /\ lastGpa' = lastGpa /\ call[c].pc = "idle" /\ Exists(id)
  BY Zenon, <1>0, <1>1, <1>2, <1>3 DEF unpublish_channel, Goto
<1>5. k \in Call /\ k.pc = "unmap" /\ k.gpa = gpa
  BY Zenon, <1>2 DEF Call, CallPc, Channel
<1>6. \A v \in VM : old.subs[v] # NoGpa => ch.subs = old.subs /\ ch.frame = old.frame
  <2> SUFFICES ASSUME NEW v \in VM, old.subs[v] # NoGpa
               PROVE  ch.subs = old.subs /\ ch.frame = old.frame
    BY Zenon
  <2>1. StaysInTable(id)
    BY Zenon, <1>0, <1>2, <1>3 DEF StaysInTable, Subscribers
  <2> QED
    BY Zenon, <2>1 DEF Channel
<1>7. \A v \in VM : old.subs[v] = NoGpa => ch.subs[v] = NoGpa
  BY Zenon, NoChannelType DEF Channel
<1> HIDE DEF k, ch
<1>8. \A d \in Caller : call'[d] = IF d = c THEN k ELSE call[d]
  BY Zenon, <1>4, <1>5, CallMoves DEF IvcInv
<1>9. \A i \in ChannelId : channels'[i] = IF i = id THEN ch ELSE channels[i]
  BY Zenon, <1>0, <1>4
<1>10. \A d \in Caller \ {c} : d[1] = c[1] => call[d].pc = "idle"
  BY Zenon, CarefulIdle DEF unpublish_channel
<1>11. \A d \in Caller \ {c} : call[d].id = id =>
             /\ call[d].pc # "publish"
             /\ call[d].pc = "size" => ch.subs[d[1]] = NoGpa
             /\ call[d].pc = "map" => ch.frame = call[d].frame /\ ch.subs[d[1]] = call[d].gpa
  <2> SUFFICES ASSUME NEW d \in Caller \ {c}, call[d].id = id
               PROVE  /\ call[d].pc # "publish"
                      /\ call[d].pc = "size" => ch.subs[d[1]] = NoGpa
                      /\ call[d].pc = "map" => /\ ch.frame = call[d].frame
                                              /\ ch.subs[d[1]] = call[d].gpa
    BY Zenon
  <2>1. d[1] \in VM
    BY Zenon DEF Caller
  <2>2. call[d].pc # "publish"
    BY Zenon, <1>4 DEF CarefulParts, PublishesNew
  <2>3. call[d].pc = "size" => old.subs[d[1]] = NoGpa
    BY Zenon, <1>2 DEF CarefulParts, SubscribesOnce
  <2>4. call[d].pc = "map" => /\ old.frame = call[d].frame /\ old.subs[d[1]] = call[d].gpa
                              /\ call[d].gpa # NoGpa
    BY Zenon, <1>0, <1>2 DEF CarefulParts, SubscribesOnce, IvcInv, CallsHold
  <2> QED
    BY Zenon, <1>6, <1>7, <2>1, <2>2, <2>3, <2>4
<1>12. \A m \in mapped :
             ByChannel(m, id) \/ ByCall(m, c) => ByChannel(m, id)' \/ ByCall(m, c)'
  <2> SUFFICES ASSUME NEW m \in mapped, ByChannel(m, id) \/ ByCall(m, c)
               PROVE  ByChannel(m, id)' \/ ByCall(m, c)'
    BY Zenon
  <2>1. m[1] \in VM /\ m[2] \in Gpa
    BY Zenon DEF IvcInv, TypeOK
  <2>2. ByChannel(m, id)
    BY Zenon, <1>4 DEF ByCall
  <2>3. CASE id[1] = m[1] /\ old.base = m[2]
    BY Zenon, <1>1, <1>3, <1>5, <1>8, <2>3 DEF ByCall
  <2>4. CASE old.subs[m[1]] = m[2]
    BY Zenon, <1>0, <1>2, <1>6, <1>9, <2>1, <2>2, <2>4 DEF ByChannel
  <2> QED
    BY Zenon, <1>2, <2>2, <2>3, <2>4 DEF ByChannel
<1> QED
  <2>1. TableMove(c, k, id, ch)
    BY Zenon, <1>4, <1>5, <1>8, <1>9, <1>10, <1>11, <1>12 DEF TableMove
  <2> QED
    BY Zenon, <1>5, <2>1, CarefulTable

\* A channel that is still there gets the subscriber that the mapping to come
\* will be accounted for by.
LEMMA CarefulSubscribe ==
  ASSUME IvcInv, CarefulParts, careful, NEW c \in Caller, subscribe_to_channel_of_publisher(c)
  PROVE  CarefulParts'
<1>0. /\ call \in [Caller -> Call] /\ channels \in [ChannelId -> Channel]
      /\ c[1] \in VM /\ NoGpa \notin Gpa /\ lastGpa \in [VM -> Nat]
  BY BoundAssumption DEF IvcInv, TypeOK, Call, Channel, Caller, NoGpa, Gpa
<1>1. PICK id \in ChannelId, gpa \in Gpa : id = call[c].id /\ gpa = call[c].gpa
  BY Zenon, <1>0 DEF IvcInv, CallsHold, subscribe_to_channel_of_publisher, Call
<1>2. /\ call[c].pc = "size" /\ mapped' = mapped /\ lastGpa' = lastGpa
      /\ gpa <= lastGpa[c[1]]
  BY Zenon, <1>1 DEF subscribe_to_channel_of_publisher, CarefulParts, RegionsGiven
<1>3. \A d \in Caller \ {c} : d[1] = c[1] => call[d].pc = "idle"
  BY Zenon, <1>2, CarefulIdle
<1>4. CASE ~Exists(id)
  <2>1. call' = [call EXCEPT ![c] = Idle] /\ channels' = channels
    BY Zenon, <1>1, <1>4 DEF subscribe_to_channel_of_publisher, StillThere, Return
  <2>2. \A d \in Caller : call'[d] = IF d = c THEN Idle ELSE call[d]
    BY Zenon, <2>1, IdleType, CallMoves DEF IvcInv
  <2> QED
    BY <1>0, <1>2, <2>1, <2>2, IdleType, CarefulCall
<1>5. CASE Exists(id)
  <2>1. PICK old \in Channel : old = channels[id] /\ old.frame \in Frame
    BY Zenon, <1>0, <1>5 DEF IvcInv, ChannelsHaveFrame
  <2>2. old.subs[c[1]] = NoGpa
    BY Zenon, <1>1, <1>2, <2>1 DEF CarefulParts, SubscribesOnce
  <2> DEFINE ch == add_subscriber(old, c[1], gpa)
             k == [pc |-> "map", id |-> id, gpa |-> gpa, frame |-> old.frame]
  <2>3. channels' = [channels EXCEPT ![id] = ch] /\ call' = [call EXCEPT ![c] = k]
    BY Zenon, <1>0, <1>1, <1>5, <2>1 DEF subscribe_to_channel_of_publisher, StillThere, Goto
  <2>4. k \in Call /\ k.pc = "map" /\ k.id = id /\ k.gpa = gpa /\ k.frame = old.frame
    BY Zenon, <2>1 DEF Call, CallPc, Channel
  <2>5. /\ ch.frame = old.frame /\ ch.base = old.base /\ ch.subs[c[1]] = gpa
        /\ \A v \in VM : v # c[1] => ch.subs[v] = old.subs[v]
    <3> DEFINE subs == [old.subs EXCEPT ![c[1]] = gpa]
    <3>1. /\ subs \in [VM -> Gpa \cup {NoGpa}] /\ subs[c[1]] = gpa
          /\ \A v \in VM : v # c[1] => subs[v] = old.subs[v]
      BY Zenon, <1>0, <2>1 DEF Channel
    <3>2. ch = [old EXCEPT !.subs = subs]
      BY Zenon, <2>1, <2>2 DEF add_subscriber
    <3> HIDE DEF subs, ch
    <3> QED
      BY Zenon, <2>1, <3>1, <3>2 DEF Channel
  <2> HIDE DEF ch, k
  <2>6. \A d \in Caller : call'[d] = IF d = c THEN k ELSE call[d]
    BY Zenon, <2>3, <2>4, CallMoves DEF IvcInv
  <2>7. \A i \in ChannelId : channels'[i] = IF i = id THEN ch ELSE channels[i]
    BY Zenon, <1>0, <2>3
  <2>8. \A d \in Caller \ {c} : call[d].id = id =>
             /\ call[d].pc # "publish"
             /\ call[d].pc = "size" => ch.subs[d[1]] = NoGpa
             /\ call[d].pc = "map" => ch.frame = call[d].frame /\ ch.subs[d[1]] = call[d].gpa
    <3> SUFFICES ASSUME NEW d \in Caller \ {c}, call[d].id = id
                 PROVE  /\ call[d].pc # "publish"
                        /\ call[d].pc = "size" => ch.subs[d[1]] = NoGpa
                        /\ call[d].pc = "map" => /\ ch.frame = call[d].frame
                                                /\ ch.subs[d[1]] = call[d].gpa
      BY Zenon
    <3>1. d[1] \in VM /\ (d[1] = c[1] => call[d].pc = "idle")
      BY Zenon, <1>3 DEF Caller
    <3>2. call[d].pc # "publish"
      BY Zenon, <1>5 DEF CarefulParts, PublishesNew
    <3>3. /\ call[d].pc = "size" => old.subs[d[1]] = NoGpa
          /\ call[d].pc = "map" => old.frame = call[d].frame /\ old.subs[d[1]] = call[d].gpa
      BY Zenon, <2>1 DEF CarefulParts, SubscribesOnce
    <3> QED
      BY Zenon, <2>5, <3>1, <3>2, <3>3
  <2>9. \A m \in mapped :
             ByChannel(m, id) \/ ByCall(m, c) => ByChannel(m, id)' \/ ByCall(m, c)'
    <3> SUFFICES ASSUME NEW m \in mapped, ByChannel(m, id) \/ ByCall(m, c)
                 PROVE  ByChannel(m, id)'
      BY Zenon
    <3>1. m[1] \in VM /\ m[2] \in Gpa
      BY Zenon DEF IvcInv, TypeOK
    <3>2. /\ old.frame = m[3]
          /\ (id[1] = m[1] /\ old.base = m[2]) \/ old.subs[m[1]] = m[2]
      BY Zenon, <1>2, <2>1 DEF ByCall, ByChannel
    <3>3. old.subs[m[1]] = m[2] => m[1] # c[1]
      BY Zenon, <1>0, <2>2, <3>1
    <3> QED
      BY Zenon, <2>5, <2>7, <3>1, <3>2, <3>3 DEF ByChannel
  <2>10. TableMove(c, k, id, ch)
    BY Zenon, <1>2, <1>3, <2>4, <2>5, <2>6, <2>7, <2>8, <2>9 DEF TableMove
  <2> QED
    BY Zenon, <2>4, <2>10, CarefulTable
<1> QED BY Zenon, <1>4, <1>5

\* The subscriber's mapping passes to the hypercall that will unmap it.
LEMMA CarefulUnsubscribe ==
  ASSUME IvcInv, CarefulParts, careful, NEW c \in Caller, NEW id \in ChannelId,
         unsubscribe_from_channel_of_publisher(c, id)
  PROVE  CarefulParts'
<1>0. /\ call \in [Caller -> Call] /\ channels \in [ChannelId -> Channel]
      /\ c[1] \in VM /\ NoGpa \notin Gpa
  BY DEF IvcInv, TypeOK, Call, Channel, Caller, NoGpa, Gpa
<1>1. PICK old \in Channel : old = channels[id]
  BY Zenon, <1>0
<1>2. PICK gpa \in Gpa : gpa = old.subs[c[1]]
  BY Zenon, <1>0, <1>1 DEF unsubscribe_from_channel_of_publisher, Channel
<1> DEFINE left == [old EXCEPT !.subs[c[1]] = NoGpa]
           ch == IF LastLeaves(left) THEN NoChannel ELSE left
           k == [pc |-> "unmap", id |-> id, gpa |-> gpa, frame |-> old.frame]
<1>3. /\ channels' = [channels EXCEPT ![id] = ch] /\ call' = [call EXCEPT ![c] = k]
      /\ mapped' = mapped /\ lastGpa' = lastGpa /\ call[c].pc = "idle" /\ Exists(id)
  BY Zenon, <1>1, <1>2 DEF unsubscribe_from_channel_of_publisher, Goto
<1>4. k \in Call /\ k.pc = "unmap" /\ k.gpa = gpa
  BY Zenon, <1>1 DEF Call, CallPc, Channel
<1>5. /\ left.frame = old.frame /\ left.base = old.base
      /\ \A v \in VM : left.subs[v] = IF v = c[1] THEN NoGpa ELSE old.subs[v]
  <2> DEFINE subs == [old.subs EXCEPT ![c[1]] = NoGpa]
  <2>1. /\ subs \in [VM -> Gpa \cup {NoGpa}]
        /\ \A v \in VM : subs[v] = IF v = c[1] THEN NoGpa ELSE old.subs[v]
    BY Zenon, <1>0, <1>1 DEF Channel
  <2>2. left = [old EXCEPT !.subs = subs]
    BY Zenon, <1>1 DEF Channel
  <2> HIDE DEF subs, left
  <2> QED
    BY Zenon, <1>1, <2>1, <2>2 DEF Channel
<1> HIDE DEF left
<1>6. /\ \A v \in VM : old.subs[v] = NoGpa => ch.subs[v] = NoGpa
      /\ \A v \in VM \ {c[1]} : old.subs[v] # NoGpa =>
           ch.frame = old.frame /\ ch.subs[v] = old.subs[v]
      /\ old.base # NoGpa => ch.frame = old.frame /\ ch.base = old.base
  BY <1>5, NoChannelType DEF LastLeaves
<1> HIDE DEF k, ch
<1>7. \A d \in Caller : call'[d] = IF d = c THEN k ELSE call[d]
  BY Zenon, <1>3, <1>4, CallMoves DEF IvcInv
<1>8. \A i \in ChannelId : channels'[i] = IF i = id THEN ch ELSE channels[i]
  BY Zenon, <1>0, <1>3
<1>9. \A d \in Caller \ {c} : d[1] = c[1] => call[d].pc = "idle"
  BY Zenon, CarefulIdle DEF unsubscribe_from_channel_of_publisher
<1>10. \A d \in Caller \ {c} : call[d].id = id =>
             /\ call[d].pc # "publish"
             /\ call[d].pc = "size" => ch.subs[d[1]] = NoGpa
             /\ call[d].pc = "map" => ch.frame = call[d].frame /\ ch.subs[d[1]] = call[d].gpa
  <2> SUFFICES ASSUME NEW d \in Caller \ {c}, call[d].id = id
               PROVE  /\ call[d].pc # "publish"
                      /\ call[d].pc = "size" => ch.subs[d[1]] = NoGpa
                      /\ call[d].pc = "map" => /\ ch.frame = call[d].frame
                                              /\ ch.subs[d[1]] = call[d].gpa
    BY Zenon
  <2>1. d[1] \in VM /\ (d[1] = c[1] => call[d].pc = "idle")
    BY Zenon, <1>9 DEF Caller
  <2>2. call[d].pc # "publish"
    BY Zenon, <1>3 DEF CarefulParts, PublishesNew
  <2>3. call[d].pc = "size" => old.subs[d[1]] = NoGpa
    BY Zenon, <1>1 DEF CarefulParts, SubscribesOnce
  <2>4. call[d].pc = "map" => /\ old.frame = call[d].frame /\ old.subs[d[1]] = call[d].gpa
                              /\ call[d].gpa # NoGpa
    BY Zenon, <1>0, <1>1 DEF CarefulParts, SubscribesOnce, IvcInv, CallsHold
  <2> QED
    BY Zenon, <1>6, <2>1, <2>2, <2>3, <2>4
<1>11. \A m \in mapped :
             ByChannel(m, id) \/ ByCall(m, c) => ByChannel(m, id)' \/ ByCall(m, c)'
  <2> SUFFICES ASSUME NEW m \in mapped, ByChannel(m, id) \/ ByCall(m, c)
               PROVE  ByChannel(m, id)' \/ ByCall(m, c)'
    BY Zenon
  <2>1. m[1] \in VM /\ m[2] \in Gpa
    BY Zenon DEF IvcInv, TypeOK
  <2>2. /\ old.frame = m[3]
        /\ (id[1] = m[1] /\ old.base = m[2]) \/ old.subs[m[1]] = m[2]
    BY Zenon, <1>1, <1>3 DEF ByCall, ByChannel
  <2>3. CASE id[1] = m[1] /\ old.base = m[2]
    BY <1>0, <1>6, <1>8, <2>1, <2>2, <2>3 DEF ByChannel
  <2>4. CASE old.subs[m[1]] = m[2] /\ m[1] = c[1]
    BY Zenon, <1>2, <1>4, <1>7, <2>4 DEF ByCall
  <2>5. CASE old.subs[m[1]] = m[2] /\ m[1] # c[1]
    BY <1>0, <1>6, <1>8, <2>1, <2>2, <2>5 DEF ByChannel
  <2> QED
    BY Zenon, <2>2, <2>3, <2>4, <2>5
<1> QED
  <2>1. TableMove(c, k, id, ch)
    BY Zenon, <1>3, <1>4, <1>7, <1>8, <1>9, <1>10, <1>11 DEF TableMove
  <2> QED
    BY Zenon, <1>4, <2>1, CarefulTable

\* What SubscribeMap maps is the frame of a channel of the table that has the
\* VM as a subscriber there.
LEMMA CarefulMap ==
  ASSUME IvcInv, CarefulParts, careful, NEW c \in Caller, SubscribeMap(c)
  PROVE  CarefulParts'
<1>0. /\ call \in [Caller -> Call] /\ c[1] \in VM /\ lastGpa \in [VM -> Nat]
  BY BoundAssumption DEF IvcInv, TypeOK, Call, Caller
<1>1. PICK id \in ChannelId, gpa \in Gpa, f \in Frame :
        id = call[c].id /\ gpa = call[c].gpa /\ f = call[c].frame
  BY Zenon, <1>0 DEF IvcInv, CallsHold, SubscribeMap, Call
<1>2. /\ call[c].pc = "map" /\ channels' = channels /\ lastGpa' = lastGpa
      /\ call' = [call EXCEPT ![c] = Idle]
      /\ mapped' = mapped \/ mapped' = mapped \cup {<<c[1], gpa, f>>}
  BY Zenon, <1>1 DEF SubscribeMap, map_region, Return
<1>3. \A d \in Caller : call'[d] = IF d = c THEN Idle ELSE call[d]
  BY Zenon, <1>2, IdleType, CallMoves DEF IvcInv
<1>4. CASE mapped' = mapped
  BY <1>0, <1>2, <1>3, <1>4, IdleType, CarefulCall
<1>5. CASE mapped' = mapped \cup {<<c[1], gpa, f>>}
  <2> DEFINE new == <<c[1], gpa, f>>
  <2>1. mapped' = mapped \cup {new} /\ new[1] = c[1] /\ new[2] = gpa /\ new[3] = f
    BY Zenon, <1>5
  <2> HIDE DEF new
  <2>2. \A d \in Caller \ {c} : d[1] = c[1] => call[d].pc = "idle"
    BY Zenon, <1>2, CarefulIdle
  <2>3. OneCall'
    BY <1>3, IdleType DEF CarefulParts, OneCall
  <2>4. PublishesNew'
    BY SMTT(30), <1>2, <1>3, <2>1, <2>2, IdleType DEF CarefulParts, PublishesNew, Exists
  <2>5. SubscribesOnce'
    BY <1>2, <1>3, IdleType DEF CarefulParts, SubscribesOnce
  <2>6. RegionsGiven'
    BY <1>1, <1>2, <1>3, <2>1, IdleType DEF CarefulParts, RegionsGiven
  <2>7. Accounted'
    <3>1. ByChannel(new, id)'
      BY Zenon, <1>1, <1>2, <2>1 DEF ByChannel, CarefulParts, SubscribesOnce
    <3>2. ASSUME NEW m \in mapped
          PROVE  \/ \E i \in ChannelId : ByChannel(m, i)'
                 \/ \E d \in Caller : ByCall(m, d)'
      BY <1>2, <1>3 DEF CarefulParts, Accounted, ByChannel, ByCall
    <3> QED
      BY Zenon, <2>1, <3>1, <3>2 DEF Accounted
  <2> QED
    BY Zenon, <2>3, <2>4, <2>5, <2>6, <2>7 DEF CarefulParts
<1> QED BY Zenon, <1>2, <1>4, <1>5

\* Unmapping at the end of an unpublish or unsubscribe.
LEMMA CarefulUnmap ==
  ASSUME IvcInv, CarefulParts, careful, NEW c \in Caller, Unmap(c)
  PROVE  CarefulParts'
<1>1. /\ call[c].pc = "unmap" /\ channels' = channels /\ lastGpa' = lastGpa
      /\ call' = [call EXCEPT ![c] = Idle]
      /\ mapped' = {m \in mapped : ~(m[1] = c[1] /\ m[2] = call[c].gpa)}
  BY Zenon DEF Unmap, unmap_region, Return
<1>2. \A d \in Caller : call'[d] = IF d = c THEN Idle ELSE call[d]
  BY Zenon, <1>1, IdleType, CallMoves DEF IvcInv
<1>3. OneCall' /\ PublishesNew'
  BY SMTT(30), <1>1, <1>2, IdleType DEF CarefulParts, OneCall, PublishesNew, Exists
<1>4. SubscribesOnce' /\ RegionsGiven'
  BY <1>1, <1>2, IdleType DEF CarefulParts, SubscribesOnce, RegionsGiven
<1>5. Accounted'
  <2>1. ASSUME NEW m \in mapped, ~(m[1] = c[1] /\ m[2] = call[c].gpa)
        PROVE  \/ \E i \in ChannelId : ByChannel(m, i)'
               \/ \E d \in Caller : ByCall(m, d)'
    BY <1>1, <1>2, <2>1 DEF CarefulParts, Accounted, ByChannel, ByCall
  <2> QED
    BY Zenon, <1>1, <2>1 DEF Accounted
<1> QED
  BY Zenon, <1>3, <1>4, <1>5 DEF CarefulParts

\* Every step of careful guests keeps the mappings accounted for.
LEMMA CarefulStep ==
  ASSUME IvcInv, CarefulParts, careful, NEW c \in Caller, execute(c)
  PROVE  CarefulParts'
<1>1. ASSUME NEW id \in ChannelId, get_channel_size(c, id) PROVE CarefulParts'
  <2>0. call \in [Caller -> Call] /\ c[1] \in VM /\ lastGpa \in [VM -> Nat]
    BY BoundAssumption DEF IvcInv, TypeOK, Call, Caller
  <2> DEFINE gpa == lastGpa[c[1]] + 1
             k == [pc |-> "size", id |-> id, gpa |-> gpa, frame |-> NoFrame]
  <2>1. /\ gpa \in Gpa /\ lastGpa' = [lastGpa EXCEPT ![c[1]] = gpa]
        /\ call' = [call EXCEPT ![c] = k] /\ channels' = channels /\ mapped' = mapped
        /\ call[c].pc = "idle" /\ channels[id].subs[c[1]] = NoGpa
    BY <1>1, <2>0, BoundAssumption DEF get_channel_size, Goto, Gpa
  <2>2. k \in Call /\ k.pc = "size" /\ k.id = id /\ k.gpa = gpa
    <3> HIDE DEF gpa
    <3> QED
      BY Zenon, <2>1 DEF Call, CallPc
  <2>3. /\ \A v \in VM : lastGpa'[v] \in Nat /\ lastGpa[v] \in Nat /\ lastGpa[v] <= lastGpa'[v]
        /\ lastGpa'[c[1]] = gpa /\ gpa \in Nat
    BY <2>0, <2>1
  <2>4. \A d \in Caller \ {c} : d[1] = c[1] => call[d].pc = "idle"
    BY Zenon, <1>1, CarefulIdle DEF get_channel_size
  <2> HIDE DEF k, gpa
  <2>5. \A d \in Caller : call'[d] = IF d = c THEN k ELSE call[d]
    BY Zenon, <2>1, <2>2, CallMoves DEF IvcInv
  <2>6. k.gpa <= lastGpa'[c[1]]
    BY <2>2, <2>3
  <2> QED
    BY Zenon, <2>1, <2>2, <2>3, <2>4, <2>5, <2>6, CarefulCall
<1>2. ~PublishFault(c)
  BY Zenon DEF PublishFault
<1> QED
  BY Zenon, <1>1, <1>2, CarefulPublish, CarefulInsert, CarefulUnpublish, CarefulSubscribe,
     CarefulUnsubscribe, CarefulMap, CarefulUnmap DEF execute

\* No VM with careful guests keeps access to a frame that is not the one of a
\* channel it takes part in, for every number of VMs, vCPUs, keys and frames:
\* the unmap of an unpublish or an unsubscribe comes after the frame may have
\* gone to another channel, yet no mapping outlives that hypercall.
THEOREM IvcNoStaleMapping == Spec => []NoStaleMapping
<1>1. Init => CarefulInv
  BY CarefulInit
<1>2. IvcInv /\ CarefulInv /\ [Next]_vars => CarefulInv'
  <2> SUFFICES ASSUME IvcInv, CarefulInv, [Next]_vars, careful' PROVE CarefulParts'
    BY Zenon DEF CarefulInv
  <2>1. CASE UNCHANGED vars
    BY <2>1 DEF vars, CarefulInv, CarefulParts, OneCall, PublishesNew, SubscribesOnce,
       RegionsGiven, Accounted, ByChannel, ByCall, Exists
  <2>2. ASSUME NEW c \in Caller, execute(c) PROVE CarefulParts'
    <3>1. careful
      BY Zenon, <2>2 DEF execute, Publish, PublishFault, insert_channel, unpublish_channel,
         get_channel_size, subscribe_to_channel_of_publisher, SubscribeMap,
         unsubscribe_from_channel_of_publisher, Unmap
    <3> QED
      BY Zenon, <2>2, <3>1, CarefulStep DEF CarefulInv
  <2> QED
    BY Zenon, <2>1, <2>2 DEF Next
<1>3. CarefulInv => NoStaleMapping
  BY Zenon DEF CarefulInv, CarefulParts, NoStaleMapping, Accounted, ByChannel, ByCall
<1> QED
  BY <1>1, <1>2, <1>3, IvcInvariant, PTL DEF Spec

\* A channel with subscribers that a step takes out of the table had one, whose
\* unsubscribe that step is.
Emptied(id) ==
    Subscribers(id) # {} /\ channels'[id] = NoChannel =>
        \E c \in Caller : /\ Subscribers(id) = {c[1]}
                          /\ call[c].pc = "idle" /\ call'[c].pc = "unmap"

\* A step of careful guests removes a channel only with its last subscriber.
LEMMA EmptiedStep ==
  ASSUME IvcInv, careful, NEW c \in Caller, execute(c), NEW id \in ChannelId
  PROVE  Emptied(id)
<1> SUFFICES ASSUME NEW w \in VM, channels[id].subs[w] # NoGpa, channels'[id] = NoChannel
             PROVE  \E d \in Caller : /\ Subscribers(id) = {d[1]}
                                      /\ call[d].pc = "idle" /\ call'[d].pc = "unmap"
  BY Zenon DEF Emptied, Subscribers
<1>0. /\ call \in [Caller -> Call] /\ channels \in [ChannelId -> Channel]
      /\ c[1] \in VM /\ NoChannel.frame \notin Frame
  BY NoChannelType, FrameAssumption DEF IvcInv, TypeOK, Call, Channel, Caller
<1>1. channels[id] # NoChannel /\ channels[id].frame \in Frame
  BY NoChannelType DEF IvcInv, ChannelsHaveFrame, Exists
<1>2. channels' # channels
  BY Zenon, <1>1
<1>3. PICK old \in Channel : old = channels[id] /\ old.frame \in Frame
  BY Zenon, <1>0, <1>1
<1>4. ~insert_channel(c)
  <2> SUFFICES ASSUME insert_channel(c) PROVE FALSE
    OBVIOUS
  <2>1. PICK i \in ChannelId, f \in Frame : i = call[c].id /\ f = call[c].frame
    BY <1>0 DEF insert_channel, IvcInv, CallsHold, Call
  <2> DEFINE ch == [frame |-> f, base |-> call[c].gpa, subs |-> NoChannel.subs]
  <2>2. channels' = [channels EXCEPT ![i] = ch] /\ ch.frame = f
    BY <2>1 DEF insert_channel
  <2> HIDE DEF ch
  <2> QED
    BY <1>0, <1>1, <2>2
<1>5. ASSUME NEW key \in Key PROVE ~unpublish_channel(c, key)
  <2> SUFFICES ASSUME unpublish_channel(c, key) PROVE FALSE
    OBVIOUS
  <2>1. id = <<c[1], key>> /\ old.base # NoGpa
    BY <1>0, <1>1, <1>3 DEF unpublish_channel, ChannelId
  <2>2. StaysInTable(id)
    BY <1>3, <2>1 DEF StaysInTable, Subscribers
  <2>3. channels'[id] = [old EXCEPT !.base = NoGpa]
    BY <1>0, <1>3, <2>1, <2>2 DEF unpublish_channel
  <2>4. channels'[id].frame = old.frame
    BY <1>3, <2>3 DEF Channel
  <2> QED
    BY <1>0, <1>3, <2>4
<1>6. ~subscribe_to_channel_of_publisher(c)
  <2> SUFFICES ASSUME subscribe_to_channel_of_publisher(c) PROVE FALSE
    OBVIOUS
  <2>1. PICK i \in ChannelId : i = call[c].id
    BY <1>0 DEF Call
  <2>2. channels' = [channels EXCEPT ![i] = add_subscriber(@, c[1], call[c].gpa)]
    BY <1>2, <2>1 DEF subscribe_to_channel_of_publisher
  <2>3. i = id /\ channels'[id] = add_subscriber(old, c[1], call[c].gpa)
    BY <1>0, <1>1, <1>3, <2>2
  <2>4. channels'[id].frame = old.frame
    BY <1>3, <2>3 DEF add_subscriber, Channel
  <2> QED
    BY <1>0, <1>3, <2>4
<1>7. ASSUME NEW i \in ChannelId, unsubscribe_from_channel_of_publisher(c, i)
      PROVE  /\ Subscribers(id) = {c[1]}
             /\ call[c].pc = "idle" /\ call'[c].pc = "unmap"
  <2> DEFINE left == [old EXCEPT !.subs[c[1]] = NoGpa]
             k == [pc |-> "unmap", id |-> i, gpa |-> channels[i].subs[c[1]],
                   frame |-> channels[i].frame]
  <2>1. /\ i = id /\ channels'[id] = IF LastLeaves(left) THEN NoChannel ELSE left
        /\ call[c].pc = "idle" /\ old.subs[c[1]] # NoGpa /\ call' = [call EXCEPT ![c] = k]
    BY <1>0, <1>1, <1>3, <1>7 DEF unsubscribe_from_channel_of_publisher, Goto
  <2>2. call'[c].pc = "unmap"
    BY <1>0, <2>1
  <2>3. left.frame = old.frame /\ \A v \in VM : v # c[1] => left.subs[v] = old.subs[v]
    <3> DEFINE subs == [old.subs EXCEPT ![c[1]] = NoGpa]
    <3>1. subs \in [VM -> Gpa \cup {NoGpa}] /\ \A v \in VM : v # c[1] => subs[v] = old.subs[v]
      BY <1>0, <1>3 DEF Channel
    <3>2. left = [old EXCEPT !.subs = subs]
      BY <1>3 DEF Channel
    <3> HIDE DEF subs, left
    <3> QED
      BY <1>3, <3>1, <3>2 DEF Channel
  <2> HIDE DEF left
  <2>4. LastLeaves(left)
    BY <1>0, <1>3, <2>1, <2>3
  <2>5. \A v \in VM : v # c[1] => channels[id].subs[v] = NoGpa
    BY <1>3, <2>3, <2>4 DEF LastLeaves
  <2> QED
    BY <1>0, <1>3, <2>1, <2>2, <2>5 DEF Subscribers
<1>8. \E i \in ChannelId : unsubscribe_from_channel_of_publisher(c, i)
  BY Zenon, <1>2, <1>4, <1>5, <1>6 DEF execute, Publish, PublishFault, get_channel_size,
     SubscribeMap, Unmap
<1> QED
  BY Zenon, <1>7, <1>8

\* Between careful guests unpublish_channel does what its comment says: a
\* channel with subscribers leaves the table only with the last of them.
THEOREM IvcUnpublishKeepsSubscribed == Manners = {TRUE} => (Spec => UnpublishKeepsSubscribed)
<1> SUFFICES ASSUME Manners = {TRUE} PROVE Spec => UnpublishKeepsSubscribed
  OBVIOUS
<1>1. Init => careful
  BY DEF Init
<1>2. careful /\ [Next]_vars => careful'
  BY ZenonT(40) DEF Next, vars, execute, Publish, PublishFault, insert_channel, unpublish_channel,
     get_channel_size, subscribe_to_channel_of_publisher, SubscribeMap,
     unsubscribe_from_channel_of_publisher, Unmap
<1>3. IvcInv /\ careful /\ [Next]_vars =>
        [\A id \in ChannelId : Emptied(id)]_vars
  BY Zenon, EmptiedStep DEF Next
<1>4. [\A id \in ChannelId : Emptied(id)]_vars =>
        [\A id \in ChannelId :
         Subscribers(id) # {} /\ channels'[id] = NoChannel =>
             \E c \in Caller : /\ Subscribers(id) = {c[1]}
                               /\ call[c].pc = "idle" /\ call'[c].pc = "unmap"]_vars
  BY Zenon DEF Emptied
<1> QED
  BY <1>1, <1>2, <1>3, <1>4, IvcInvariant, PTL DEF Spec, UnpublishKeepsSubscribed
=============================================================================
