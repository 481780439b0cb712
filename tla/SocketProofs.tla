---------------------------- MODULE SocketProofs ----------------------------
(* Proofs about Socket for every value of the constants: type correctness  *)
(* (the inherit flags only on open sockets included), exactly-once         *)
(* closesocket through every path of try_clone_to_owned, inheritable       *)
(* sockets confined to a running clone, and INVALID_SOCKET never held.     *)
EXTENDS Socket, TLAPS

USE SocketAssumption

-----------------------------------------------------------------------------
(* Type correctness.                                                       *)
LEMMA InitTypeOK == Init => TypeOK
  BY DEF Init, TypeOK, Val, Hold, Empty, RawSocket, Kinds, Owning, Stages

LEMMA PutTyped ==
  ASSUME NEW f \in [Slots -> Val], NEW s \in Slots, NEW v \in Val
  PROVE  [f EXCEPT ![s] = v] \in [Slots -> Val]
  OBVIOUS

LEMMA RekindTyped ==
  ASSUME NEW f \in [Slots -> Val], NEW s \in Slots, NEW k \in Kinds
  PROVE  [f EXCEPT ![s].kind = k] \in [Slots -> Val]
  BY DEF Val

(* The values the actions store are values.                                *)
LEMMA ValuesTyped ==
  ASSUME NEW k \in Kinds, NEW v \in RawSocket, NEW src \in Slots \cup {NoSlot},
         NEW st \in Stages
  PROVE  /\ Hold(k, v) \in Val
         /\ Cloning(v, src, st) \in Val
         /\ Empty \in Val
         /\ [kind |-> "Borrowed", sock |-> v, from |-> src, stage |-> "Info"] \in Val
  BY DEF Val, Hold, Cloning, Empty, Kinds, Owning, RawSocket, Stages

LEMMA NextTypeOK == TypeOK /\ [Next]_vars => TypeOK'
<1> SUFFICES ASSUME TypeOK, [Next]_vars PROVE TypeOK'
  OBVIOUS
<1>0. /\ {"Owned", "Tcp", "Listener", "Udp", "Raw", "Borrowed", "Cloning",
          "None"} \subseteq Kinds
      /\ {"Info", "Fallback", "NoInherit"} \subseteq Stages
      /\ INVALID_SOCKET \in RawSocket /\ Sockets \subseteq RawSocket
  BY DEF Kinds, Owning, Stages, RawSocket
<1> DEFINE SlotOK == slot' \in [Slots -> Val]
<1> USE <1>0, ValuesTyped DEF TypeOK, Put, Rekind, IsEmpty, CloseSocket,
        OpenSocket, ClonedSocketHeld
<1>1. ASSUME NEW s \in Slots, TryCloneSocketWithFlag(s) PROVE TypeOK'
  <2>1. slot[s].sock \in RawSocket /\ slot[s].from \in Slots \cup {NoSlot}
    BY DEF Val
  <2>2. \E val \in Val : slot' = [slot EXCEPT ![s] = val]
    <3>1. CASE \E v \in Sockets : OpenSocket(v, FALSE) /\ Put(s, Hold("Owned", v))
      BY <3>1
    <3>2. CASE Put(s, Empty)
      BY <3>2
    <3>3. CASE Put(s, Cloning(slot[s].sock, slot[s].from, "Fallback"))
      BY <3>3, <2>1
    <3>4. QED  BY <1>1, <3>1, <3>2, <3>3 DEF TryCloneSocketWithFlag
  <2>3. SlotOK  BY <2>2, PutTyped
  <2>4. QED     BY <1>1, <2>3 DEF TryCloneSocketWithFlag, SlotOK
<1>2. ASSUME NEW s \in Slots, TryCloneSocketFallback(s) PROVE TypeOK'
  <2>1. slot[s].from \in Slots \cup {NoSlot}
    BY DEF Val
  <2>2. \E val \in Val : slot' = [slot EXCEPT ![s] = val]
    <3>1. CASE \E v \in Sockets :
                 OpenSocket(v, TRUE) /\ Put(s, Cloning(v, slot[s].from, "NoInherit"))
      BY <3>1, <2>1
    <3>2. CASE Put(s, Empty)
      BY <3>2
    <3>3. QED  BY <1>2, <3>1, <3>2 DEF TryCloneSocketFallback
  <2>3. SlotOK  BY <2>2, PutTyped
  <2>4. QED     BY <1>2, <2>3 DEF TryCloneSocketFallback, SlotOK
<1>3. ASSUME NEW s \in Slots, TryCloneSetNoInherit(s) PROVE TypeOK'
  <2>1. slot[s].sock \in RawSocket
    BY DEF Val
  <2>2. \E val \in Val : slot' = [slot EXCEPT ![s] = val]
    BY <1>3, <2>1 DEF TryCloneSetNoInherit
  <2>3. SlotOK  BY <2>2, PutTyped
  <2>4. QED     BY <1>3, <2>3 DEF TryCloneSetNoInherit, SlotOK
<1>4. ASSUME NEW s \in Slots, Drop(s) PROVE TypeOK'
  <2>1. SlotOK  BY <1>4, PutTyped DEF Drop
  <2>2. QED     BY <1>4, <2>1 DEF Drop, SlotOK
<1>5. ASSUME NEW s \in Slots, EndBorrow(s) PROVE TypeOK'
  <2>1. SlotOK  BY <1>5, PutTyped DEF EndBorrow
  <2>2. QED     BY <1>5, <2>1 DEF EndBorrow, SlotOK
<1>6. ASSUME NEW s \in Slots, IntoRaw(s) PROVE TypeOK'
  <2>1. SlotOK  BY <1>6, RekindTyped DEF IntoRaw
  <2>2. QED     BY <1>6, <2>1 DEF IntoRaw, SlotOK
<1>7. ASSUME NEW s \in Slots, FromRaw(s) PROVE TypeOK'
  <2>1. SlotOK  BY <1>7, RekindTyped DEF FromRaw
  <2>2. QED     BY <1>7, <2>1 DEF FromRaw, SlotOK
<1>8. ASSUME NEW s \in Slots, IntoOwned(s) PROVE TypeOK'
  <2>1. SlotOK  BY <1>8, RekindTyped DEF IntoOwned
  <2>2. QED     BY <1>8, <2>1 DEF IntoOwned, SlotOK
<1>9. ASSUME NEW s \in Slots, Bind(s) PROVE TypeOK'
  <2>1. \E val \in Val : slot' = [slot EXCEPT ![s] = val]
    BY <1>9 DEF Bind
  <2>2. SlotOK  BY <2>1, PutTyped
  <2>3. QED     BY <1>9, <2>2 DEF Bind, SlotOK
<1>10. ASSUME NEW s \in Slots, NEW k \in {"Tcp", "Listener", "Udp"},
              OwnedInto(s, k) PROVE TypeOK'
  <2>1. SlotOK  BY <1>10, RekindTyped DEF OwnedInto
  <2>2. QED     BY <1>10, <2>1 DEF OwnedInto, SlotOK
<1>11. ASSUME NEW s \in Slots, NEW t \in Slots, TryCloneDuplicate(s, t)
       PROVE TypeOK'
  <2>1. slot[s].sock \in RawSocket
    BY DEF Val
  <2>2. OwnerOf(s) \in Slots \cup {NoSlot}
    BY DEF OwnerOf, Val
  <2>3. SlotOK  BY <1>11, <2>1, <2>2, PutTyped DEF TryCloneDuplicate
  <2>4. QED     BY <1>11, <2>3 DEF TryCloneDuplicate, SlotOK
<1>12. ASSUME NEW s \in Slots, NEW t \in Slots, AsSocket(s, t) PROVE TypeOK'
  <2>1. slot[s].sock \in RawSocket
    BY DEF Val
  <2>2. OwnerOf(s) \in Slots \cup {NoSlot}
    BY DEF OwnerOf, Val
  <2>3. SlotOK  BY <1>12, <2>1, <2>2, PutTyped DEF AsSocket
  <2>4. QED     BY <1>12, <2>3 DEF AsSocket, SlotOK
<1>13. CASE UNCHANGED vars
  BY <1>13 DEF vars
<1>14. QED
  BY <1>1, <1>2, <1>3, <1>4, <1>5, <1>6, <1>7, <1>8, <1>9, <1>10, <1>11,
     <1>12, <1>13 DEF Next

(* Every reachable state is well typed, and the inherit flag is only ever *)
(* set on a socket that is open.                                           *)
THEOREM TypeCorrect == Spec => []TypeOK
  BY InitTypeOK, NextTypeOK, PTL DEF Spec
-----------------------------------------------------------------------------
(* Exactly-once closesocket.  ExclusiveOwnership is inductive given       *)
(* TypeOK: WSASocketW and Bind return a socket that is not open and so has *)
(* no holder; a clone in progress holds its new socket until                *)
(* set_no_inherit returns it as an OwnedSocket or closes it; a drop closes  *)
(* the one socket its holder owns.                                          *)
LEMMA NextOwnership ==
  TypeOK /\ ExclusiveOwnership /\ [Next]_vars => ExclusiveOwnership'
<1> SUFFICES ASSUME TypeOK, ExclusiveOwnership, [Next]_vars
             PROVE  ExclusiveOwnership'
  OBVIOUS
<1> USE DEF TypeOK, Val, Put, Rekind, IsEmpty, Owning, Borrowable, CloseSocket,
            OpenSocket, ClonedSocketHeld, ExclusiveOwnership, Holders
<1>1. ASSUME NEW s \in Slots, TryCloneSocketWithFlag(s) PROVE ExclusiveOwnership'
  <2>1. CASE \E v \in Sockets : OpenSocket(v, FALSE) /\ Put(s, Hold("Owned", v))
    <3>1. PICK v \in Sockets : OpenSocket(v, FALSE) /\ Put(s, Hold("Owned", v))
      BY <2>1
    <3>2. Holders(v) = {} /\ ~ClonedSocketHeld(s) /\ slot[s].kind \notin Owning
      BY <1>1, <3>1 DEF TryCloneSocketWithFlag
    <3>3. QED  BY <3>1, <3>2 DEF Hold
  <2>2. CASE Put(s, Empty) /\ UNCHANGED <<sopen, inheritable>>
    BY <1>1, <2>2 DEF TryCloneSocketWithFlag, Empty, Hold
  <2>3. CASE Put(s, Cloning(slot[s].sock, slot[s].from, "Fallback"))
             /\ UNCHANGED <<sopen, inheritable>>
    BY <1>1, <2>3 DEF TryCloneSocketWithFlag, Cloning
  <2>4. QED  BY <1>1, <2>1, <2>2, <2>3 DEF TryCloneSocketWithFlag
<1>2. ASSUME NEW s \in Slots, TryCloneSocketFallback(s) PROVE ExclusiveOwnership'
  BY <1>2 DEF TryCloneSocketFallback, Cloning, Empty, Hold
<1>3. ASSUME NEW s \in Slots, TryCloneSetNoInherit(s) PROVE ExclusiveOwnership'
  BY <1>3 DEF TryCloneSetNoInherit, Hold, Empty
<1>4. ASSUME NEW s \in Slots, Drop(s) PROVE ExclusiveOwnership'
  BY <1>4 DEF Drop, Empty, Hold
<1>5. ASSUME NEW s \in Slots, EndBorrow(s) PROVE ExclusiveOwnership'
  BY <1>5 DEF EndBorrow, Empty, Hold
<1>6. ASSUME NEW s \in Slots, IntoRaw(s) PROVE ExclusiveOwnership'
  BY <1>6 DEF IntoRaw
<1>7. ASSUME NEW s \in Slots, FromRaw(s) PROVE ExclusiveOwnership'
  BY <1>7 DEF FromRaw
<1>8. ASSUME NEW s \in Slots, IntoOwned(s) PROVE ExclusiveOwnership'
  BY <1>8 DEF IntoOwned
<1>9. ASSUME NEW s \in Slots, Bind(s) PROVE ExclusiveOwnership'
  BY <1>9 DEF Bind, Hold
<1>10. ASSUME NEW s \in Slots, NEW k \in {"Tcp", "Listener", "Udp"},
       OwnedInto(s, k) PROVE ExclusiveOwnership'
  BY <1>10 DEF OwnedInto
<1>11. ASSUME NEW s \in Slots, NEW t \in Slots, TryCloneDuplicate(s, t)
       PROVE ExclusiveOwnership'
  BY <1>11 DEF TryCloneDuplicate, Cloning, OwnerOf
<1>12. ASSUME NEW s \in Slots, NEW t \in Slots, AsSocket(s, t)
       PROVE ExclusiveOwnership'
  BY <1>12 DEF AsSocket, OwnerOf
<1>13. CASE UNCHANGED vars
  BY <1>13 DEF vars
<1>14. QED
  BY <1>1, <1>2, <1>3, <1>4, <1>5, <1>6, <1>7, <1>8, <1>9, <1>10, <1>11, <1>12, <1>13 DEF Next

LEMMA InitOwnership == Init => ExclusiveOwnership
  BY DEF Init, ExclusiveOwnership, Holders, Empty, Hold, Owning, ClonedSocketHeld

(* Every open socket has exactly one party that will close it, on every    *)
(* path of try_clone_to_owned, for any number of slots and sockets.        *)
THEOREM Ownership == Spec => []ExclusiveOwnership
<1>1. Init => TypeOK /\ ExclusiveOwnership
  BY InitTypeOK, InitOwnership
<1>2. TypeOK /\ ExclusiveOwnership /\ [Next]_vars
        => (TypeOK /\ ExclusiveOwnership)'
  BY NextTypeOK, NextOwnership
<1>3. QED
  BY <1>1, <1>2, PTL DEF Spec
-----------------------------------------------------------------------------
(* The two clone properties together, preserved as one.                   *)
CloneSafe == InheritableOnlyInClone /\ NoInvalidSocket

(* Inheritable sockets and INVALID_SOCKET.  Given TypeOK, both properties  *)
(* are inductive: the only inheritable socket WSASocketW returns goes into *)
(* the clone that asked for it, set_no_inherit clears the flag or closes   *)
(* the socket before the clone lets go of it, no other step touches a      *)
(* clone in stage NoInherit, and every value put into a slot other than    *)
(* Empty and a clone's protocol info is a socket checked against           *)
(* INVALID_SOCKET.                                                         *)
LEMMA NextCloneSafe ==
  TypeOK /\ CloneSafe /\ [Next]_vars => CloneSafe'
<1> SUFFICES ASSUME TypeOK, CloneSafe, [Next]_vars
             PROVE  CloneSafe'
  OBVIOUS
<1> USE DEF TypeOK, Val, Put, Rekind, IsEmpty, Owning, Borrowable, CloseSocket,
            OpenSocket, ClonedSocketHeld, CloneSafe, InheritableOnlyInClone,
            NoInvalidSocket
<1>1. ASSUME NEW s \in Slots, TryCloneSocketWithFlag(s) PROVE CloneSafe'
  <2>1. CASE \E v \in Sockets : OpenSocket(v, FALSE) /\ Put(s, Hold("Owned", v))
    <3>1. PICK v \in Sockets : OpenSocket(v, FALSE) /\ Put(s, Hold("Owned", v))
      BY <2>1
    <3>2. ~ClonedSocketHeld(s)
      BY <1>1 DEF TryCloneSocketWithFlag
    <3>3. QED  BY <3>1, <3>2 DEF Hold
  <2>2. CASE Put(s, Empty) /\ UNCHANGED <<sopen, inheritable>>
    BY <1>1, <2>2 DEF TryCloneSocketWithFlag, Empty, Hold
  <2>3. CASE Put(s, Cloning(slot[s].sock, slot[s].from, "Fallback"))
             /\ UNCHANGED <<sopen, inheritable>>
    BY <1>1, <2>3 DEF TryCloneSocketWithFlag, Cloning
  <2>4. QED  BY <1>1, <2>1, <2>2, <2>3 DEF TryCloneSocketWithFlag
<1>2. ASSUME NEW s \in Slots, TryCloneSocketFallback(s) PROVE CloneSafe'
  BY <1>2 DEF TryCloneSocketFallback, Cloning, Empty, Hold
<1>3. ASSUME NEW s \in Slots, TryCloneSetNoInherit(s) PROVE CloneSafe'
  BY <1>3 DEF TryCloneSetNoInherit, Hold, Empty
<1>4. ASSUME NEW s \in Slots, Drop(s) PROVE CloneSafe'
  BY <1>4 DEF Drop, Empty, Hold
<1>5. ASSUME NEW s \in Slots, EndBorrow(s) PROVE CloneSafe'
  BY <1>5 DEF EndBorrow, Empty, Hold
<1>6. ASSUME NEW s \in Slots, IntoRaw(s) PROVE CloneSafe'
  BY <1>6 DEF IntoRaw
<1>7. ASSUME NEW s \in Slots, FromRaw(s) PROVE CloneSafe'
  BY <1>7 DEF FromRaw
<1>8. ASSUME NEW s \in Slots, IntoOwned(s) PROVE CloneSafe'
  BY <1>8 DEF IntoOwned
<1>9. ASSUME NEW s \in Slots, Bind(s) PROVE CloneSafe'
  BY <1>9 DEF Bind, Hold
<1>10. ASSUME NEW s \in Slots, NEW k \in {"Tcp", "Listener", "Udp"},
       OwnedInto(s, k) PROVE CloneSafe'
  BY <1>10 DEF OwnedInto
<1>11. ASSUME NEW s \in Slots, NEW t \in Slots, TryCloneDuplicate(s, t)
       PROVE CloneSafe'
  BY <1>11 DEF TryCloneDuplicate, Cloning, OwnerOf
<1>12. ASSUME NEW s \in Slots, NEW t \in Slots, AsSocket(s, t)
       PROVE CloneSafe'
  BY <1>12 DEF AsSocket, OwnerOf
<1>13. CASE UNCHANGED vars
  BY <1>13 DEF vars
<1>14. QED
  BY <1>1, <1>2, <1>3, <1>4, <1>5, <1>6, <1>7, <1>8, <1>9, <1>10, <1>11, <1>12, <1>13 DEF Next

LEMMA InitCloneSafe == Init => CloneSafe
  BY DEF Init, CloneSafe, InheritableOnlyInClone, NoInvalidSocket, Empty, Hold,
         Owning, ClonedSocketHeld

(* A socket with HANDLE_FLAG_INHERIT set exists only inside a running      *)
(* try_clone_to_owned, between the fallback WSASocketW and set_no_inherit, *)
(* on desktop and UWP builds alike, for any number of slots and sockets.   *)
THEOREM NoInheritLeak == Spec => []InheritableOnlyInClone
<1>1. Init => TypeOK /\ CloneSafe
  BY InitTypeOK, InitCloneSafe
<1>2. TypeOK /\ CloneSafe /\ [Next]_vars => (TypeOK /\ CloneSafe)'
  BY NextTypeOK, NextCloneSafe
<1>3. TypeOK /\ CloneSafe => InheritableOnlyInClone
  BY DEF CloneSafe
<1>4. QED
  BY <1>1, <1>2, <1>3, PTL DEF Spec

(* No OwnedSocket, BorrowedSocket, stream, listener or clone's new socket  *)
(* is ever INVALID_SOCKET.                                                 *)
THEOREM ValidSockets == Spec => []NoInvalidSocket
<1>1. Init => TypeOK /\ CloneSafe
  BY InitTypeOK, InitCloneSafe
<1>2. TypeOK /\ CloneSafe /\ [Next]_vars => (TypeOK /\ CloneSafe)'
  BY NextTypeOK, NextCloneSafe
<1>3. TypeOK /\ CloneSafe => NoInvalidSocket
  BY DEF CloneSafe
<1>4. QED
  BY <1>1, <1>2, <1>3, PTL DEF Spec
(* The invariant the refinement and the step properties rest on.         *)
LEMMA CoreInv == Spec => [](TypeOK /\ ExclusiveOwnership /\ CloneSafe)
<1>1. Init => TypeOK /\ ExclusiveOwnership /\ CloneSafe
  BY InitTypeOK, InitOwnership, InitCloneSafe
<1>2. TypeOK /\ ExclusiveOwnership /\ CloneSafe /\ [Next]_vars
        => (TypeOK /\ ExclusiveOwnership /\ CloneSafe)'
  BY NextTypeOK, NextOwnership, NextCloneSafe
<1>3. QED
  BY <1>1, <1>2, PTL DEF Spec

-----------------------------------------------------------------------------
(* Borrows.  BorrowTracksOwner is inductive given TypeOK: a borrow is only *)
(* taken from an owner or copied from a borrow, which passes on its owner; *)
(* the owner cannot be dropped, converted or made raw while the borrow     *)
(* lives (Unborrowed); and every other step writes a slot that is no       *)
(* borrow's owner.                                                         *)
LEMMA NextBorrow ==
  TypeOK /\ BorrowTracksOwner /\ [Next]_vars => BorrowTracksOwner'
<1> SUFFICES ASSUME TypeOK, BorrowTracksOwner, [Next]_vars
             PROVE  BorrowTracksOwner'
  OBVIOUS
<1> USE DEF TypeOK, Val, Put, Rekind, IsEmpty, Borrowable, BorrowTracksOwner
<1>1. ASSUME NEW s \in Slots, TryCloneSocketWithFlag(s) PROVE BorrowTracksOwner'
  BY <1>1 DEF TryCloneSocketWithFlag, Cloning, Empty, Hold, OpenSocket
<1>2. ASSUME NEW s \in Slots, TryCloneSocketFallback(s) PROVE BorrowTracksOwner'
  BY <1>2 DEF TryCloneSocketFallback, Cloning, Empty, Hold, OpenSocket
<1>3. ASSUME NEW s \in Slots, TryCloneSetNoInherit(s) PROVE BorrowTracksOwner'
  BY <1>3 DEF TryCloneSetNoInherit, ClonedSocketHeld, Empty, Hold, CloseSocket
<1>4. ASSUME NEW s \in Slots, Drop(s) PROVE BorrowTracksOwner'
  BY <1>4 DEF Drop, Unborrowed, Empty, Hold, Owning, CloseSocket
<1>5. ASSUME NEW s \in Slots, EndBorrow(s) PROVE BorrowTracksOwner'
  BY <1>5 DEF EndBorrow, Empty, Hold
<1>6. ASSUME NEW s \in Slots, IntoRaw(s) PROVE BorrowTracksOwner'
  BY <1>6 DEF IntoRaw, Unborrowed
<1>7. ASSUME NEW s \in Slots, FromRaw(s) PROVE BorrowTracksOwner'
  BY <1>7 DEF FromRaw
<1>8. ASSUME NEW s \in Slots, IntoOwned(s) PROVE BorrowTracksOwner'
  BY <1>8 DEF IntoOwned, Unborrowed
<1>9. ASSUME NEW s \in Slots, Bind(s) PROVE BorrowTracksOwner'
  <2>1. PICK v \in Sockets, k \in {"Tcp", "Listener", "Udp"} :
          OpenSocket(v, FALSE) /\ Put(s, Hold(k, v))
    BY <1>9 DEF Bind
  <2>2. QED
    BY <1>9, <2>1 DEF Bind, Hold
<1>10. ASSUME NEW s \in Slots, NEW k \in {"Tcp", "Listener", "Udp"},
       OwnedInto(s, k) PROVE BorrowTracksOwner'
  BY <1>10 DEF OwnedInto, Unborrowed
<1>11. ASSUME NEW s \in Slots, NEW t \in Slots, TryCloneDuplicate(s, t)
       PROVE BorrowTracksOwner'
  BY <1>11 DEF TryCloneDuplicate, Cloning
<1>12. ASSUME NEW s \in Slots, NEW t \in Slots, AsSocket(s, t)
       PROVE BorrowTracksOwner'
  BY <1>12 DEF AsSocket, OwnerOf
<1>13. CASE UNCHANGED vars
  BY <1>13 DEF vars
<1>14. QED
  BY <1>1, <1>2, <1>3, <1>4, <1>5, <1>6, <1>7, <1>8, <1>9, <1>10, <1>11,
     <1>12, <1>13 DEF Next

LEMMA InitBorrow == Init => BorrowTracksOwner
  BY DEF Init, BorrowTracksOwner, Empty, Hold

(* No BorrowedSocket, whether taken from an OwnedSocket, a stream, a       *)
(* listener or a UDP socket or copied from another borrow, ever names a    *)
(* closed socket, for any number of slots and sockets.                     *)
THEOREM BorrowSafety == Spec => []NoDanglingBorrow
<1>1. Init => TypeOK /\ ExclusiveOwnership /\ BorrowTracksOwner
  BY InitTypeOK, InitOwnership, InitBorrow
<1>2. TypeOK /\ ExclusiveOwnership /\ BorrowTracksOwner /\ [Next]_vars
        => (TypeOK /\ ExclusiveOwnership /\ BorrowTracksOwner)'
  BY NextTypeOK, NextOwnership, NextBorrow
<1>3. TypeOK /\ ExclusiveOwnership /\ BorrowTracksOwner => NoDanglingBorrow
  BY DEF TypeOK, ExclusiveOwnership, BorrowTracksOwner, NoDanglingBorrow,
         Holders, Borrowable, Owning
<1>4. QED
  BY <1>1, <1>2, <1>3, PTL DEF Spec
-----------------------------------------------------------------------------
(* Refinement of Ownership.  A slot value that makes its slot a holder of *)
(* its socket: an owning kind, or a clone past its second WSASocketW.      *)
HeldVal(val) ==
  val.kind \in Owning \/ (val.kind = "Cloning" /\ val.stage = "NoInherit")

(* What storing a value into one slot does to the holders of a socket.     *)
LEMMA SPutHolders ==
  ASSUME TypeOK, NEW s \in Slots, NEW val \in Val, NEW x \in Sockets,
         slot' = [slot EXCEPT ![s] = val]
  PROVE  Holders(x)' = IF HeldVal(val) /\ val.sock = x
                         THEN Holders(x) \cup {s} ELSE Holders(x) \ {s}
  BY DEF TypeOK, Holders, ClonedSocketHeld, HeldVal

(* A step that leaves sopen and every holder set alone is a stutter of     *)
(* Ownership.                                                              *)
LEMMA SAbsStutter ==
  ASSUME sopen' = sopen, \A x \in Sockets : Holders(x)' = Holders(x)
  PROVE  [Abs!Next]_Abs!vars
  BY DEF Abs!vars, AbsHolders

(* Storing a value that changes no holder: the slot neither held before    *)
(* nor holds after, or it holds the same socket before and after.          *)
LEMMA SPutStutter ==
  ASSUME TypeOK, NEW s \in Slots, NEW val \in Val,
         slot' = [slot EXCEPT ![s] = val], sopen' = sopen,
         \/ ~HeldVal(slot[s]) /\ ~HeldVal(val)
         \/ HeldVal(slot[s]) /\ HeldVal(val) /\ val.sock = slot[s].sock
  PROVE  [Abs!Next]_Abs!vars
<1>1. ASSUME NEW x \in Sockets PROVE Holders(x)' = Holders(x)
  <2>1. Holders(x)' = IF HeldVal(val) /\ val.sock = x
                        THEN Holders(x) \cup {s} ELSE Holders(x) \ {s}
    BY SPutHolders
  <2>2. s \in Holders(x) <=> HeldVal(slot[s]) /\ slot[s].sock = x
    BY DEF Holders, HeldVal, ClonedSocketHeld
  <2>3. QED
    BY <2>1, <2>2
<1>2. QED
  BY <1>1, SAbsStutter

(* A socket that is not open handed to one slot is an Acquire.             *)
LEMMA SFreshAcquire ==
  ASSUME TypeOK, ExclusiveOwnership, NEW s \in Slots, NEW val \in Val,
         NEW v \in Sockets, v \notin sopen, sopen' = sopen \cup {v},
         slot' = [slot EXCEPT ![s] = val],
         ~HeldVal(slot[s]), HeldVal(val), val.sock = v
  PROVE  [Abs!Next]_Abs!vars
<1>1. ASSUME NEW x \in Sockets PROVE s \notin Holders(x)
  BY DEF Holders, HeldVal, ClonedSocketHeld
<1>2. Holders(v) = {}
  BY DEF ExclusiveOwnership
<1>3. ASSUME NEW x \in Sockets
      PROVE  Holders(x)' = IF x = v THEN {s} ELSE Holders(x)
  <2>1. Holders(x)' = IF HeldVal(val) /\ val.sock = x
                        THEN Holders(x) \cup {s} ELSE Holders(x) \ {s}
    BY SPutHolders
  <2>2. QED
    BY <1>1, <1>2, <2>1
<1>4. Abs!Acquire(v, s)
  BY <1>3 DEF Abs!Acquire, AbsHolders
<1>5. QED
  BY <1>4 DEF Abs!Next

(* The one holder of an open socket letting go of it while it is closed    *)
(* is a Release.                                                           *)
LEMMA SRelease ==
  ASSUME TypeOK, ExclusiveOwnership, NEW s \in Slots, NEW val \in Val,
         slot' = [slot EXCEPT ![s] = val],
         HeldVal(slot[s]), slot[s].sock \in Sockets, ~HeldVal(val),
         sopen' = sopen \ {slot[s].sock}
  PROVE  [Abs!Next]_Abs!vars
<1>1. PICK v \in Sockets : v = slot[s].sock
  OBVIOUS
<1>2. s \in Holders(v)
  BY <1>1 DEF Holders, HeldVal, ClonedSocketHeld
<1>3. Holders(v) = {s}
  BY <1>2 DEF ExclusiveOwnership
<1>4. ASSUME NEW x \in Sockets
      PROVE  Holders(x)' = IF x = v THEN {} ELSE Holders(x)
  <2>1. Holders(x)' = IF HeldVal(val) /\ val.sock = x
                        THEN Holders(x) \cup {s} ELSE Holders(x) \ {s}
    BY SPutHolders
  <2>2. x # v => s \notin Holders(x)
    BY <1>1 DEF Holders
  <2>3. QED
    BY <1>3, <2>1, <2>2
<1>5. Abs!Release(v, s)
  BY <1>1, <1>3, <1>4 DEF Abs!Release, AbsHolders
<1>6. QED
  BY <1>5 DEF Abs!Next

(* A rename between owning kinds (into_raw/from_raw, the stream, listener *)
(* and UDP conversions) changes no holder.                                 *)
LEMMA SRekindStutter ==
  ASSUME TypeOK, NEW s \in Slots, NEW k \in Owning, slot[s].kind \in Owning,
         Rekind(s, k), sopen' = sopen
  PROVE  [Abs!Next]_Abs!vars
<1>1. ASSUME NEW x \in Sockets PROVE Holders(x)' = Holders(x)
  BY DEF TypeOK, Rekind, Holders, ClonedSocketHeld
<1>2. QED
  BY <1>1, SAbsStutter

(* Every step of Socket is a step of Ownership or leaves it unchanged.     *)
LEMMA NextAbs ==
  TypeOK /\ ExclusiveOwnership /\ CloneSafe /\ [Next]_vars => [Abs!Next]_Abs!vars
<1> SUFFICES ASSUME TypeOK, ExclusiveOwnership, CloneSafe, [Next]_vars
             PROVE  [Abs!Next]_Abs!vars
  OBVIOUS
<1>0. /\ Empty \in Val /\ ~HeldVal(Empty)
      /\ \A v \in Sockets, k \in Owning : Hold(k, v) \in Val /\ HeldVal(Hold(k, v))
  BY DEF Empty, Hold, Val, Kinds, Owning, RawSocket, Stages, HeldVal
<1>1. ASSUME NEW s \in Slots, TryCloneSocketWithFlag(s) PROVE [Abs!Next]_Abs!vars
  <2>1. ~HeldVal(slot[s])
    BY <1>1 DEF TryCloneSocketWithFlag, HeldVal, Owning
  <2>2. CASE \E v \in Sockets : OpenSocket(v, FALSE) /\ Put(s, Hold("Owned", v))
    <3>1. PICK v \in Sockets : OpenSocket(v, FALSE) /\ Put(s, Hold("Owned", v))
      BY <2>2
    <3>2. "Owned" \in Owning /\ Hold("Owned", v).sock = v
      BY DEF Owning, Hold
    <3>3. QED
      BY <1>0, <2>1, <3>1, <3>2, SFreshAcquire DEF OpenSocket, Put
  <2>3. CASE Put(s, Empty) /\ UNCHANGED <<sopen, inheritable>>
    BY <1>0, <2>1, <2>3, SPutStutter DEF Put
  <2>4. CASE Put(s, Cloning(slot[s].sock, slot[s].from, "Fallback"))
             /\ UNCHANGED <<sopen, inheritable>>
    <3>1. Cloning(slot[s].sock, slot[s].from, "Fallback") \in Val
      BY DEF TypeOK, Val, Cloning, Kinds, Stages
    <3>2. ~HeldVal(Cloning(slot[s].sock, slot[s].from, "Fallback"))
      BY DEF HeldVal, Cloning, Owning
    <3>3. QED
      BY <2>1, <2>4, <3>1, <3>2, SPutStutter DEF Put
  <2>5. QED
    BY <1>1, <2>2, <2>3, <2>4 DEF TryCloneSocketWithFlag
<1>2. ASSUME NEW s \in Slots, TryCloneSocketFallback(s) PROVE [Abs!Next]_Abs!vars
  <2>1. ~HeldVal(slot[s]) /\ slot[s].from \in Slots \cup {NoSlot}
    BY <1>2 DEF TryCloneSocketFallback, HeldVal, Owning, TypeOK, Val
  <2>2. CASE \E v \in Sockets :
               OpenSocket(v, TRUE) /\ Put(s, Cloning(v, slot[s].from, "NoInherit"))
    <3>1. PICK v \in Sockets :
            OpenSocket(v, TRUE) /\ Put(s, Cloning(v, slot[s].from, "NoInherit"))
      BY <2>2
    <3>2. /\ Cloning(v, slot[s].from, "NoInherit") \in Val
          /\ HeldVal(Cloning(v, slot[s].from, "NoInherit"))
          /\ Cloning(v, slot[s].from, "NoInherit").sock = v
      BY <2>1 DEF Val, Cloning, Kinds, Stages, RawSocket, HeldVal
    <3>3. QED
      BY <2>1, <3>1, <3>2, SFreshAcquire DEF OpenSocket, Put
  <2>3. CASE Put(s, Empty) /\ UNCHANGED <<sopen, inheritable>>
    BY <1>0, <2>1, <2>3, SPutStutter DEF Put
  <2>4. QED
    BY <1>2, <2>2, <2>3 DEF TryCloneSocketFallback
<1>3. ASSUME NEW s \in Slots, TryCloneSetNoInherit(s) PROVE [Abs!Next]_Abs!vars
  <2>1. HeldVal(slot[s]) /\ slot[s].sock \in Sockets
    BY <1>3 DEF TryCloneSetNoInherit, ClonedSocketHeld, HeldVal, CloneSafe,
               NoInvalidSocket, TypeOK, Val, RawSocket
  <2>2. CASE /\ ~uwp /\ slot[s].sock \in sopen
             /\ inheritable' = inheritable \ {slot[s].sock}
             /\ Put(s, Hold("Owned", slot[s].sock)) /\ UNCHANGED sopen
    <3>1. "Owned" \in Owning /\ Hold("Owned", slot[s].sock).sock = slot[s].sock
      BY DEF Owning, Hold
    <3>2. QED
      BY <1>0, <2>1, <2>2, <3>1, SPutStutter DEF Put
  <2>3. CASE CloseSocket(slot[s].sock) /\ Put(s, Empty)
    BY <1>0, <2>1, <2>3, SRelease DEF Put, CloseSocket
  <2>4. QED
    BY <1>3, <2>2, <2>3 DEF TryCloneSetNoInherit
<1>4. ASSUME NEW s \in Slots, Drop(s) PROVE [Abs!Next]_Abs!vars
  <2>1. HeldVal(slot[s]) /\ slot[s].sock \in Sockets
    BY <1>4 DEF Drop, HeldVal, CloneSafe, NoInvalidSocket, TypeOK, Val, RawSocket
  <2>2. QED
    BY <1>0, <1>4, <2>1, SRelease DEF Drop, Put, CloseSocket
<1>5. ASSUME NEW s \in Slots, EndBorrow(s) PROVE [Abs!Next]_Abs!vars
  <2>1. ~HeldVal(slot[s])
    BY <1>5 DEF EndBorrow, HeldVal, Owning
  <2>2. QED
    BY <1>0, <1>5, <2>1, SPutStutter DEF EndBorrow, Put
<1>6. ASSUME NEW s \in Slots, IntoRaw(s) PROVE [Abs!Next]_Abs!vars
  BY <1>6, SRekindStutter DEF IntoRaw, Owning
<1>7. ASSUME NEW s \in Slots, FromRaw(s) PROVE [Abs!Next]_Abs!vars
  BY <1>7, SRekindStutter DEF FromRaw, Owning
<1>8. ASSUME NEW s \in Slots, IntoOwned(s) PROVE [Abs!Next]_Abs!vars
  BY <1>8, SRekindStutter DEF IntoOwned, Owning
<1>9. ASSUME NEW s \in Slots, Bind(s) PROVE [Abs!Next]_Abs!vars
  <2>1. PICK v \in Sockets, k \in {"Tcp", "Listener", "Udp"} :
          OpenSocket(v, FALSE) /\ Put(s, Hold(k, v))
    BY <1>9 DEF Bind
  <2>2. ~HeldVal(slot[s]) /\ k \in Owning /\ Hold(k, v).sock = v
    BY <1>9 DEF Bind, IsEmpty, HeldVal, Owning, Hold
  <2>3. QED
    BY <1>0, <2>1, <2>2, SFreshAcquire DEF OpenSocket, Put
<1>10. ASSUME NEW s \in Slots, NEW k \in {"Tcp", "Listener", "Udp"},
              OwnedInto(s, k) PROVE [Abs!Next]_Abs!vars
  BY <1>10, SRekindStutter DEF OwnedInto, Owning
<1>11. ASSUME NEW s \in Slots, NEW t \in Slots, TryCloneDuplicate(s, t)
       PROVE [Abs!Next]_Abs!vars
  <2>1. Cloning(slot[s].sock, OwnerOf(s), "Info") \in Val
    BY DEF TypeOK, Val, Cloning, OwnerOf, Kinds, Stages
  <2>2. ~HeldVal(slot[t]) /\ ~HeldVal(Cloning(slot[s].sock, OwnerOf(s), "Info"))
    BY <1>11 DEF TryCloneDuplicate, IsEmpty, HeldVal, Cloning, Owning
  <2>3. QED
    BY <1>11, <2>1, <2>2, SPutStutter DEF TryCloneDuplicate, Put
<1>12. ASSUME NEW s \in Slots, NEW t \in Slots, AsSocket(s, t)
       PROVE [Abs!Next]_Abs!vars
  <2> DEFINE b == [kind |-> "Borrowed", sock |-> slot[s].sock, from |-> OwnerOf(s),
                   stage |-> "Info"]
  <2>1. b \in Val
    BY DEF TypeOK, Val, OwnerOf, Kinds, Stages
  <2>2. ~HeldVal(slot[t]) /\ ~HeldVal(b)
    BY <1>12 DEF AsSocket, IsEmpty, HeldVal, Owning
  <2>3. QED
    BY <1>12, <2>1, <2>2, SPutStutter DEF AsSocket, Put
<1>13. CASE UNCHANGED vars
  BY <1>13 DEF vars, Abs!vars, AbsHolders, Holders, ClonedSocketHeld
<1>14. QED
  BY <1>1, <1>2, <1>3, <1>4, <1>5, <1>6, <1>7, <1>8, <1>9, <1>10, <1>11,
     <1>12, <1>13 DEF Next

LEMMA InitAbs == Init => Abs!Init
<1> SUFFICES ASSUME Init PROVE Abs!Init
  OBVIOUS
<1>1. \A x \in Sockets : Holders(x) = {}
  BY DEF Init, Holders, Empty, Hold, Owning, ClonedSocketHeld
<1>2. QED
  BY <1>1 DEF Init, Abs!Init, Abs!Owned, AbsHolders

(* The socket wrappers implement Ownership: every socket Winsock hands out *)
(* (WSASocketW in try_clone_to_owned, with or without the flag, and the    *)
(* library's own sockets) goes to one slot, and only that slot's Drop or   *)
(* failed set_no_inherit closes it, for any number of slots and sockets.   *)
THEOREM Refinement == Spec => AbsSpec
<1>1. Spec => [](TypeOK /\ ExclusiveOwnership /\ CloneSafe)
  BY CoreInv
<1>2. QED
  BY <1>1, InitAbs, NextAbs, PTL DEF Spec, AbsSpec, Abs!Spec
=============================================================================
