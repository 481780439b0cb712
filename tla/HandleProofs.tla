---------------------------- MODULE HandleProofs ----------------------------
(* Proofs about Handle for every value of the constants: type correctness, *)
(* exactly-once ownership of every open handle, no dangling borrow, and no *)
(* failure sentinel ever owned.                                            *)
EXTENDS Handle, TLAPS

USE HandleAssumption

-----------------------------------------------------------------------------
(* Type correctness.                                                       *)
LEMMA InitTypeOK == Init => TypeOK
  BY DEF Init, TypeOK, Val, Hold, FailedCall, BorrowOf, Empty, RawHandle, Kinds, Owning, Errors

(* Updating one slot, or the kind of one slot, keeps slot typed.          *)
LEMMA PutTyped ==
  ASSUME NEW f \in [Slots -> Val], NEW s \in Slots, NEW v \in Val
  PROVE  [f EXCEPT ![s] = v] \in [Slots -> Val]
  OBVIOUS

LEMMA RekindTyped ==
  ASSUME NEW f \in [Slots -> Val], NEW s \in Slots, NEW k \in Kinds
  PROVE  [f EXCEPT ![s].kind = k] \in [Slots -> Val]
  BY DEF Val

(* The values the actions store are values.                                *)
LEMMA ValuesTyped ==
  ASSUME NEW k \in Kinds, NEW v \in RawHandle,
         NEW src \in Slots \cup {NoSlot, StdOwner}
  PROVE  /\ Hold(k, v) \in Val
         /\ FailedCall(k, v) \in Val
         /\ BorrowOf(v, src) \in Val
         /\ Empty \in Val
  BY DEF Val, Hold, FailedCall, BorrowOf, Empty, Kinds, Owning, RawHandle

LEMMA NextTypeOK == TypeOK /\ [Next]_vars => TypeOK'
<1> SUFFICES ASSUME TypeOK, [Next]_vars PROVE TypeOK'
  OBVIOUS
<1>0. /\ {"Owned", "OrNull", "OrInvalid", "File", "Pipe", "Join", "Raw",
          "Borrowed", "None"} \subseteq Kinds
      /\ Owning \subseteq Kinds /\ Borrowable \subseteq Kinds
      /\ NULL \in RawHandle /\ INVALID \in RawHandle
      /\ \A h \in Handles : h \in RawHandle
      /\ "ApiError" \in Errors /\ "InvalidHandle" \in Errors
      /\ "DupError" \in Errors
  BY DEF Kinds, Owning, Borrowable, RawHandle, Errors
<1> DEFINE SlotOK == slot' \in [Slots -> Val]
<1> USE <1>0, ValuesTyped DEF TypeOK, Put, Rekind, IsEmpty
<1>1. ASSUME NEW s \in Slots, CreateOrNull(s) PROVE TypeOK'
  <2>1. SlotOK  BY <1>1, PutTyped DEF CreateOrNull
  <2>2. QED     BY <1>1, <2>1 DEF CreateOrNull, SlotOK
<1>2. ASSUME NEW s \in Slots, CreateOrInvalid(s) PROVE TypeOK'
  <2>1. SlotOK  BY <1>2, PutTyped DEF CreateOrInvalid
  <2>2. QED     BY <1>2, <2>1 DEF CreateOrInvalid, SlotOK
<1>3. ASSUME NEW s \in Slots, TryFromNull(s) PROVE TypeOK'
  <2>1. SlotOK  BY <1>3, PutTyped, RekindTyped DEF TryFromNull
  <2>2. QED     BY <1>3, <2>1 DEF TryFromNull, SlotOK
<1>4. ASSUME NEW s \in Slots, TryFromInvalid(s) PROVE TypeOK'
  <2>1. SlotOK  BY <1>4, PutTyped, RekindTyped DEF TryFromInvalid
  <2>2. QED     BY <1>4, <2>1 DEF TryFromInvalid, SlotOK
<1>5. ASSUME NEW s \in Slots, Drop(s) PROVE TypeOK'
  <2>1. SlotOK  BY <1>5, PutTyped DEF Drop
  <2>2. QED     BY <1>5, <2>1 DEF Drop, CloseHandle, SlotOK
<1>6. ASSUME NEW s \in Slots, EndBorrow(s) PROVE TypeOK'
  <2>1. SlotOK  BY <1>6, PutTyped DEF EndBorrow
  <2>2. QED     BY <1>6, <2>1 DEF EndBorrow, SlotOK
<1>7. ASSUME NEW s \in Slots, IntoRaw(s) PROVE TypeOK'
  <2>1. SlotOK  BY <1>7, RekindTyped DEF IntoRaw
  <2>2. QED     BY <1>7, <2>1 DEF IntoRaw, SlotOK
<1>8. ASSUME NEW s \in Slots, FromRaw(s) PROVE TypeOK'
  <2>1. SlotOK  BY <1>8, RekindTyped DEF FromRaw
  <2>2. QED     BY <1>8, <2>1 DEF FromRaw, SlotOK
<1>9. ASSUME NEW s \in Slots, OwnedIntoFile(s) PROVE TypeOK'
  <2>1. SlotOK  BY <1>9, RekindTyped DEF OwnedIntoFile
  <2>2. QED     BY <1>9, <2>1 DEF OwnedIntoFile, SlotOK
<1>10. ASSUME NEW s \in Slots, IntoOwned(s) PROVE TypeOK'
  <2>1. SlotOK  BY <1>10, RekindTyped DEF IntoOwned
  <2>2. QED     BY <1>10, <2>1 DEF IntoOwned, SlotOK
<1>11. ASSUME NEW s \in Slots, AsHandleStd(s) PROVE TypeOK'
  <2>1. SlotOK  BY <1>11, PutTyped DEF AsHandleStd
  <2>2. QED     BY <1>11, <2>1 DEF AsHandleStd, SlotOK
<1>12. ASSUME NEW s \in Slots, Spawn(s) PROVE TypeOK'
  <2>1. SlotOK  BY <1>12, PutTyped DEF Spawn
  <2>2. QED     BY <1>12, <2>1 DEF Spawn, SlotOK
<1>13. ASSUME NEW s \in Slots, NEW t \in Slots, AsHandle(s, t) PROVE TypeOK'
  <2>1. slot[s].h \in RawHandle /\ slot[s].from \in Slots \cup {NoSlot, StdOwner}
    BY DEF Val
  <2>2. SlotOK  BY <1>13, <2>1, PutTyped DEF AsHandle
  <2>3. QED     BY <1>13, <2>2 DEF AsHandle, SlotOK
<1>14. ASSUME NEW s \in Slots, NEW t \in Slots, Duplicate(s, t) PROVE TypeOK'
  <2>1. SlotOK  BY <1>14, PutTyped DEF Duplicate
  <2>2. QED     BY <1>14, <2>1 DEF Duplicate, SlotOK
<1>15. CASE UNCHANGED vars
  BY <1>15 DEF vars
<1>16. QED
  BY <1>1, <1>2, <1>3, <1>4, <1>5, <1>6, <1>7, <1>8, <1>9, <1>10, <1>11,
     <1>12, <1>13, <1>14, <1>15 DEF Next

(* The type invariant holds in every reachable state.                      *)
THEOREM TypeCorrect == Spec => []TypeOK
  BY InitTypeOK, NextTypeOK, PTL DEF Spec

-----------------------------------------------------------------------------
(* Exactly-once ownership.  ExclusiveOwnership is inductive given TypeOK:  *)
(* a value put into an empty slot is fresh (the kernel hands out only      *)
(* values that are not open, and a fresh value has no holder) or is not a  *)
(* real handle; moves rename the kind within Owning; a drop closes the one *)
(* value its holder owns.                                                  *)
LEMMA NextOwnership ==
  TypeOK /\ ExclusiveOwnership /\ [Next]_vars => ExclusiveOwnership'
<1> SUFFICES ASSUME TypeOK, ExclusiveOwnership, [Next]_vars
             PROVE  ExclusiveOwnership'
  OBVIOUS
<1> USE DEF TypeOK, Val, ExclusiveOwnership, Holders, Put, Rekind, IsEmpty,
            Owning, Borrowable
<1>1. ASSUME NEW s \in Slots, CreateOrNull(s) PROVE ExclusiveOwnership'
  BY <1>1 DEF CreateOrNull, Hold, FailedCall
<1>2. ASSUME NEW s \in Slots, CreateOrInvalid(s) PROVE ExclusiveOwnership'
  BY <1>2 DEF CreateOrInvalid, Hold, FailedCall
<1>3. ASSUME NEW s \in Slots, TryFromNull(s) PROVE ExclusiveOwnership'
  BY <1>3 DEF TryFromNull, Empty, Hold
<1>4. ASSUME NEW s \in Slots, TryFromInvalid(s) PROVE ExclusiveOwnership'
  BY <1>4 DEF TryFromInvalid, Empty, Hold
<1>5. ASSUME NEW s \in Slots, Drop(s) PROVE ExclusiveOwnership'
  BY <1>5 DEF Drop, CloseHandle, Empty, Hold
<1>6. ASSUME NEW s \in Slots, EndBorrow(s) PROVE ExclusiveOwnership'
  BY <1>6 DEF EndBorrow, Empty, Hold
<1>7. ASSUME NEW s \in Slots, IntoRaw(s) PROVE ExclusiveOwnership'
  BY <1>7 DEF IntoRaw
<1>8. ASSUME NEW s \in Slots, FromRaw(s) PROVE ExclusiveOwnership'
  BY <1>8 DEF FromRaw
<1>9. ASSUME NEW s \in Slots, OwnedIntoFile(s) PROVE ExclusiveOwnership'
  BY <1>9 DEF OwnedIntoFile
<1>10. ASSUME NEW s \in Slots, IntoOwned(s) PROVE ExclusiveOwnership'
  BY <1>10 DEF IntoOwned
<1>11. ASSUME NEW s \in Slots, AsHandleStd(s) PROVE ExclusiveOwnership'
  BY <1>11 DEF AsHandleStd, BorrowOf
<1>12. ASSUME NEW s \in Slots, Spawn(s) PROVE ExclusiveOwnership'
  BY <1>12 DEF Spawn, Hold
<1>13. ASSUME NEW s \in Slots, NEW t \in Slots, AsHandle(s, t)
       PROVE ExclusiveOwnership'
  BY <1>13 DEF AsHandle, BorrowOf
<1>14. ASSUME NEW s \in Slots, NEW t \in Slots, Duplicate(s, t)
       PROVE ExclusiveOwnership'
  BY <1>14 DEF Duplicate, Hold
<1>15. CASE UNCHANGED vars
  BY <1>15 DEF vars
<1>16. QED
  BY <1>1, <1>2, <1>3, <1>4, <1>5, <1>6, <1>7, <1>8, <1>9, <1>10, <1>11,
     <1>12, <1>13, <1>14, <1>15 DEF Next

LEMMA InitOwnership == Init => ExclusiveOwnership
  BY DEF Init, ExclusiveOwnership, Holders, Empty, Hold, Owning

(* Every open real handle has exactly one party that will close it: no    *)
(* leak, no second owner, for any number of slots and handle values.       *)
THEOREM Ownership == Spec => []ExclusiveOwnership
<1>1. Init => TypeOK /\ ExclusiveOwnership
  BY InitTypeOK, InitOwnership
<1>2. TypeOK /\ ExclusiveOwnership /\ [Next]_vars
        => (TypeOK /\ ExclusiveOwnership)'
  BY NextTypeOK, NextOwnership
<1>3. QED
  BY <1>1, <1>2, PTL DEF Spec

(* The invariant the refinement and the drop property rest on.           *)
LEMMA CoreInv == Spec => [](TypeOK /\ ExclusiveOwnership)
<1>1. Init => TypeOK /\ ExclusiveOwnership
  BY InitTypeOK, InitOwnership
<1>2. TypeOK /\ ExclusiveOwnership /\ [Next]_vars
        => (TypeOK /\ ExclusiveOwnership)'
  BY NextTypeOK, NextOwnership
<1>3. QED
  BY <1>1, <1>2, PTL DEF Spec

-----------------------------------------------------------------------------
(* Borrows and sentinels.  BorrowTracksOwner and FailedIsSentinel are      *)
(* preserved given TypeOK and ExclusiveOwnership: a borrowed-from value    *)
(* cannot be moved or dropped (Unborrowed), a new value goes into an empty *)
(* slot that no borrow points at, and a sentinel leaves its wrapper only   *)
(* by being forgotten.                                                     *)
LEMMA NextBorrow ==
  TypeOK /\ BorrowTracksOwner /\ FailedIsSentinel /\ [Next]_vars
    => (BorrowTracksOwner /\ FailedIsSentinel)'
<1> SUFFICES ASSUME TypeOK, BorrowTracksOwner, FailedIsSentinel, [Next]_vars
             PROVE  (BorrowTracksOwner /\ FailedIsSentinel)'
  OBVIOUS
<1> USE HandleAssumption DEF TypeOK, Val, BorrowTracksOwner, FailedIsSentinel,
        Put, Rekind, IsEmpty, Owning, Borrowable, Unborrowed
<1>1. ASSUME NEW s \in Slots, CreateOrNull(s) PROVE (BorrowTracksOwner /\ FailedIsSentinel)'
  BY <1>1 DEF CreateOrNull, Hold, FailedCall
<1>2. ASSUME NEW s \in Slots, CreateOrInvalid(s) PROVE (BorrowTracksOwner /\ FailedIsSentinel)'
  BY <1>2 DEF CreateOrInvalid, Hold, FailedCall
<1>3. ASSUME NEW s \in Slots, TryFromNull(s) PROVE (BorrowTracksOwner /\ FailedIsSentinel)'
  BY <1>3 DEF TryFromNull, Empty, Hold
<1>4. ASSUME NEW s \in Slots, TryFromInvalid(s) PROVE (BorrowTracksOwner /\ FailedIsSentinel)'
  BY <1>4 DEF TryFromInvalid, Empty, Hold
<1>5. ASSUME NEW s \in Slots, Drop(s) PROVE (BorrowTracksOwner /\ FailedIsSentinel)'
  BY <1>5 DEF Drop, CloseHandle, Empty, Hold
<1>6. ASSUME NEW s \in Slots, EndBorrow(s) PROVE (BorrowTracksOwner /\ FailedIsSentinel)'
  BY <1>6 DEF EndBorrow, Empty, Hold
<1>7. ASSUME NEW s \in Slots, IntoRaw(s) PROVE (BorrowTracksOwner /\ FailedIsSentinel)'
  BY <1>7 DEF IntoRaw
<1>8. ASSUME NEW s \in Slots, FromRaw(s) PROVE (BorrowTracksOwner /\ FailedIsSentinel)'
  BY <1>8 DEF FromRaw
<1>9. ASSUME NEW s \in Slots, OwnedIntoFile(s) PROVE (BorrowTracksOwner /\ FailedIsSentinel)'
  BY <1>9 DEF OwnedIntoFile
<1>10. ASSUME NEW s \in Slots, IntoOwned(s) PROVE (BorrowTracksOwner /\ FailedIsSentinel)'
  BY <1>10 DEF IntoOwned
<1>11. ASSUME NEW s \in Slots, AsHandleStd(s) PROVE (BorrowTracksOwner /\ FailedIsSentinel)'
  BY <1>11 DEF AsHandleStd, BorrowOf
<1>12. ASSUME NEW s \in Slots, Spawn(s) PROVE (BorrowTracksOwner /\ FailedIsSentinel)'
  BY <1>12 DEF Spawn, Hold
<1>13. ASSUME NEW s \in Slots, NEW t \in Slots, AsHandle(s, t)
       PROVE (BorrowTracksOwner /\ FailedIsSentinel)'
  BY <1>13 DEF AsHandle, BorrowOf
<1>14. ASSUME NEW s \in Slots, NEW t \in Slots, Duplicate(s, t)
       PROVE (BorrowTracksOwner /\ FailedIsSentinel)'
  BY <1>14 DEF Duplicate, Hold
<1>15. CASE UNCHANGED vars
  BY <1>15 DEF vars
<1>16. QED
  BY <1>1, <1>2, <1>3, <1>4, <1>5, <1>6, <1>7, <1>8, <1>9, <1>10, <1>11,
     <1>12, <1>13, <1>14, <1>15 DEF Next

LEMMA InitIInv == Init => IInv
  BY InitTypeOK, InitOwnership
     DEF Init, IInv, BorrowTracksOwner, FailedIsSentinel, Empty, Hold

LEMMA NextIInv == IInv /\ [Next]_vars => IInv'
  BY NextTypeOK, NextOwnership, NextBorrow DEF IInv

(* The inductive invariant gives both properties: a borrow of a slot      *)
(* carries the value of a live owner, which ExclusiveOwnership keeps open, *)
(* and a sentinel is only ever held by the HandleOrNull or HandleOrInvalid *)
(* that received it.                                                       *)
LEMMA IInvSafe == IInv => NoDanglingBorrow /\ FailedCallNeverOwned
  BY DEF IInv, TypeOK, Val, ExclusiveOwnership, Holders, BorrowTracksOwner,
         FailedIsSentinel, NoDanglingBorrow, FailedCallNeverOwned, Owning,
         Borrowable

(* No BorrowedHandle, from AsHandle on an owner, a copy of a borrow or   *)
(* the standard handle, ever refers to a closed handle.                    *)
THEOREM BorrowSafety == Spec => []NoDanglingBorrow
  BY InitIInv, NextIInv, IInvSafe, PTL DEF Spec

(* No failure sentinel of an API call ever gets past the TryFrom checks   *)
(* of HandleOrNull and HandleOrInvalid into an owned value.                *)
THEOREM SentinelSafety == Spec => []FailedCallNeverOwned
  BY InitIInv, NextIInv, IInvSafe, PTL DEF Spec
-----------------------------------------------------------------------------
(* Refinement of Ownership.  Three lemmas say when a step of Handle is a   *)
(* stutter, an Acquire or a Release of Ownership under AbsHolders, in      *)
(* terms of what the step does to the holders of each real handle.         *)
LEMMA AbsStutter ==
  ASSUME TypeOK, open' = open, stdh' = stdh,
         \A g \in Handles : Holders(g)' = Holders(g)
  PROVE  UNCHANGED <<open, AbsHolders>>
  BY DEF AbsHolders

LEMMA AbsAcquire ==
  ASSUME TypeOK, ExclusiveOwnership, NEW h \in Handles \ open, NEW s \in Slots,
         open' = open \cup {h}, stdh' = stdh, Holders(h)' = {s},
         \A g \in Handles \ {h} : Holders(g)' = Holders(g)
  PROVE  Abs!Acquire(h, s)
  <1>1. h # stdh
    BY DEF ExclusiveOwnership
  <1>2. QED
    BY <1>1 DEF Abs!Acquire, AbsHolders

LEMMA AbsRelease ==
  ASSUME TypeOK, ExclusiveOwnership, NEW h \in Handles, NEW s \in Holders(h),
         open' = open \ {h}, stdh' = stdh, Holders(h)' = {},
         \A g \in Handles \ {h} : Holders(g)' = Holders(g)
  PROVE  Abs!Release(h, s)
  <1>1. h # stdh /\ Holders(h) = {s}
    BY DEF ExclusiveOwnership
  <1>2. QED
    BY <1>1 DEF Abs!Release, AbsHolders

(* The initial state is one of Ownership's.                                *)
LEMMA InitAbs == Init => Abs!Init
<1> SUFFICES ASSUME Init PROVE Abs!Init
  OBVIOUS
<1>1. \A h \in Handles : Holders(h) = {}
  BY DEF Init, Holders, Empty, Hold, Owning
<1>2. AbsHolders = [h \in Handles |-> IF h = stdh THEN {StdOwner} ELSE {}]
  BY <1>1 DEF AbsHolders
<1>3. open \subseteq Handles /\ \A h \in Handles : h \in open <=> h = stdh
  BY DEF Init
<1>4. QED
  BY <1>2, <1>3 DEF Abs!Init, Abs!Owned

(* What storing a value in one slot, or renaming its kind within Owning,   *)
(* does to the holders of a real handle.                                   *)
LEMMA PutHolders ==
  ASSUME TypeOK, NEW s \in Slots, NEW val \in Val, NEW g \in Handles,
         slot' = [slot EXCEPT ![s] = val]
  PROVE  Holders(g)' = IF val.kind \in Owning /\ val.h = g
                         THEN Holders(g) \cup {s} ELSE Holders(g) \ {s}
  BY DEF TypeOK, Holders

LEMMA RekindHolders ==
  ASSUME TypeOK, NEW s \in Slots, NEW k \in Owning, slot[s].kind \in Owning,
         slot' = [slot EXCEPT ![s].kind = k]
  PROVE  \A g \in Handles : Holders(g)' = Holders(g)
  BY DEF TypeOK, Val, Holders

(* A slot that holds nothing, a borrow or a sentinel is no holder.         *)
LEMMA NotHolder ==
  ASSUME TypeOK, NEW s \in Slots, NEW g \in Handles,
         slot[s].kind \notin Owning \/ slot[s].h \notin Handles
  PROVE  s \notin Holders(g)
  BY DEF Holders

(* The three shapes of an abstract step.                                   *)
LEMMA StutterStep ==
  ASSUME UNCHANGED <<open, AbsHolders>> PROVE [Abs!Next]_Abs!vars
  BY DEF Abs!vars

LEMMA AcquireStep ==
  ASSUME NEW h \in Handles, NEW s \in Slots, Abs!Acquire(h, s)
  PROVE  [Abs!Next]_Abs!vars
  BY DEF Abs!Next

LEMMA ReleaseStep ==
  ASSUME NEW h \in Handles, NEW s \in Slots, Abs!Release(h, s)
  PROVE  [Abs!Next]_Abs!vars
  BY DEF Abs!Next

(* A value with no real handle stored in an empty or non-owning slot, and  *)
(* a rename within Owning, change no ownership.                            *)
LEMMA PutStutter ==
  ASSUME TypeOK, NEW s \in Slots, NEW val \in Val,
         slot' = [slot EXCEPT ![s] = val], open' = open, stdh' = stdh,
         slot[s].kind \notin Owning \/ slot[s].h \notin Handles,
         val.kind \notin Owning \/ val.h \notin Handles
  PROVE  [Abs!Next]_Abs!vars
<1>1. ASSUME NEW g \in Handles PROVE Holders(g)' = Holders(g)
  <2>1. s \notin Holders(g)
    BY NotHolder
  <2>2. Holders(g)' = IF val.kind \in Owning /\ val.h = g
                        THEN Holders(g) \cup {s} ELSE Holders(g) \ {s}
    BY PutHolders
  <2>3. QED
    BY <2>1, <2>2
<1>2. QED
  BY <1>1, AbsStutter, StutterStep

LEMMA RekindStutter ==
  ASSUME TypeOK, NEW s \in Slots, NEW k \in Owning, slot[s].kind \in Owning,
         slot' = [slot EXCEPT ![s].kind = k], open' = open, stdh' = stdh
  PROVE  [Abs!Next]_Abs!vars
  BY RekindHolders, AbsStutter, StutterStep

(* A fresh real handle stored in an empty slot is an Acquire.              *)
LEMMA FreshAcquire ==
  ASSUME TypeOK, ExclusiveOwnership, NEW s \in Slots, IsEmpty(s),
         NEW h \in Handles \ open, NEW k \in Owning,
         slot' = [slot EXCEPT ![s] = Hold(k, h)], open' = open \cup {h},
         stdh' = stdh
  PROVE  [Abs!Next]_Abs!vars
<1>1. Holders(h) = {}
  BY DEF ExclusiveOwnership
<1>2. Hold(k, h) \in Val /\ Hold(k, h).kind \in Owning /\ Hold(k, h).h = h
  <2>1. k \in Kinds /\ h \in RawHandle
    BY DEF Kinds, RawHandle
  <2>2. QED
    BY <2>1, ValuesTyped DEF Hold
<1>3. \A g \in Handles : s \notin Holders(g)
  <2>1. slot[s].kind \notin Owning
    BY DEF IsEmpty, Owning
  <2>2. QED
    BY <2>1, NotHolder
<1>4. Holders(h)' = {s}
  <2>1. Holders(h)' = Holders(h) \cup {s}
    BY <1>2, PutHolders
  <2>2. QED
    BY <1>1, <2>1
<1>5. ASSUME NEW g \in Handles \ {h} PROVE Holders(g)' = Holders(g)
  <2>1. Holders(g)' = Holders(g) \ {s}
    BY <1>2, PutHolders
  <2>2. QED
    BY <1>3, <2>1
<1>6. QED
  BY <1>4, <1>5, AbsAcquire, AcquireStep

(* Every step of Handle is a step of Ownership under the mapping.          *)
LEMMA NextAbs ==
  TypeOK /\ ExclusiveOwnership /\ [Next]_vars => [Abs!Next]_Abs!vars
<1> SUFFICES ASSUME TypeOK, ExclusiveOwnership, [Next]_vars
             PROVE  [Abs!Next]_Abs!vars
  OBVIOUS
<1>0. Empty \in Val /\ Empty.kind \notin Owning
  BY DEF Empty, Hold, Val, Kinds, Owning, RawHandle
<1>1. ASSUME NEW s \in Slots, CreateOrNull(s) PROVE [Abs!Next]_Abs!vars
  <2>1. CASE \E h \in Handles \ open :
               /\ open' = open \cup {h}
               /\ Put(s, Hold("OrNull", h))
               /\ UNCHANGED lastError
    <3>1. PICK h \in Handles \ open :
               /\ open' = open \cup {h}
               /\ Put(s, Hold("OrNull", h))
      BY <2>1
    <3>2. QED
      BY <1>1, <3>1, FreshAcquire DEF CreateOrNull, Put, Owning
  <2>2. CASE /\ Put(s, FailedCall("OrNull", NULL))
             /\ UNCHANGED open
    <3>1. FailedCall("OrNull", NULL) \in Val /\ FailedCall("OrNull", NULL).h \notin Handles
      BY ValuesTyped DEF FailedCall, Kinds, Owning, RawHandle
    <3>2. slot[s].kind \notin Owning
      BY <1>1 DEF CreateOrNull, IsEmpty, Owning
    <3>3. QED
      BY <1>1, <2>2, <3>1, <3>2, PutStutter DEF CreateOrNull, Put
  <2>3. QED
    BY <1>1, <2>1, <2>2 DEF CreateOrNull
<1>2. ASSUME NEW s \in Slots, CreateOrInvalid(s) PROVE [Abs!Next]_Abs!vars
  <2>1. CASE \E h \in Handles \ open :
               /\ open' = open \cup {h}
               /\ Put(s, Hold("OrInvalid", h))
               /\ UNCHANGED lastError
    <3>1. PICK h \in Handles \ open :
               /\ open' = open \cup {h}
               /\ Put(s, Hold("OrInvalid", h))
      BY <2>1
    <3>2. QED
      BY <1>2, <3>1, FreshAcquire DEF CreateOrInvalid, Put, Owning
  <2>2. CASE /\ Put(s, FailedCall("OrInvalid", INVALID))
             /\ UNCHANGED open
    <3>1. FailedCall("OrInvalid", INVALID) \in Val /\ FailedCall("OrInvalid", INVALID).h \notin Handles
      BY ValuesTyped DEF FailedCall, Kinds, Owning, RawHandle
    <3>2. slot[s].kind \notin Owning
      BY <1>2 DEF CreateOrInvalid, IsEmpty, Owning
    <3>3. QED
      BY <1>2, <2>2, <3>1, <3>2, PutStutter DEF CreateOrInvalid, Put
  <2>3. QED
    BY <1>2, <2>1, <2>2 DEF CreateOrInvalid
<1>3. ASSUME NEW s \in Slots, TryFromNull(s) PROVE [Abs!Next]_Abs!vars
  <2>1. CASE slot[s].h = NULL
    <3>1. slot[s].h \notin Handles
      BY <2>1
    <3>2. QED
      BY <1>3, <1>0, <2>1, <3>1, PutStutter DEF TryFromNull, Put, Empty, Hold, Owning
  <2>2. CASE slot[s].h # NULL
    BY <1>3, <2>2, RekindStutter DEF TryFromNull, Rekind, Owning
  <2>3. QED
    BY <2>1, <2>2
<1>4. ASSUME NEW s \in Slots, TryFromInvalid(s) PROVE [Abs!Next]_Abs!vars
  <2>1. CASE slot[s].h = INVALID
    <3>1. slot[s].h \notin Handles
      BY <2>1
    <3>2. QED
      BY <1>4, <1>0, <2>1, <3>1, PutStutter DEF TryFromInvalid, Put, Empty, Hold, Owning
  <2>2. CASE slot[s].h # INVALID
    BY <1>4, <2>2, RekindStutter DEF TryFromInvalid, Rekind, Owning
  <2>3. QED
    BY <2>1, <2>2
<1>5. ASSUME NEW s \in Slots, Drop(s) PROVE [Abs!Next]_Abs!vars
  <2>1. CASE slot[s].h \in Handles
    <3>0. PICK h \in Handles : h = slot[s].h
      BY <2>1
    <3>1. s \in Holders(h)
      BY <1>5, <3>0 DEF Drop, Holders, Owning
    <3>2. Holders(h) = {s} /\ h \in open
      BY <3>1 DEF ExclusiveOwnership
    <3>3. slot' = [slot EXCEPT ![s] = Empty] /\ open' = open \ {h} /\ stdh' = stdh
      BY <1>5, <3>0 DEF Drop, Put, CloseHandle
    <3>4. Holders(h)' = {}
      <4>1. Holders(h)' = IF Empty.kind \in Owning /\ Empty.h = h
                            THEN Holders(h) \cup {s} ELSE Holders(h) \ {s}
        BY <1>0, <3>3, PutHolders
      <4>2. QED
        BY <1>0, <3>2, <4>1
    <3>5. ASSUME NEW g \in Handles \ {h} PROVE Holders(g)' = Holders(g)
      <4>1. s \notin Holders(g)
        BY <3>0 DEF Holders
      <4>2. Holders(g)' = Holders(g) \ {s}
        BY <1>0, <3>3, PutHolders
      <4>3. QED
        BY <4>1, <4>2
    <3>6. QED
      <4>1. Abs!Release(h, s)
        BY <3>1, <3>3, <3>4, <3>5, AbsRelease
      <4>2. QED
        BY <4>1, ReleaseStep
  <2>2. CASE slot[s].h \notin Handles
    <3>1. open' = open
      BY <1>5, <2>2 DEF Drop, CloseHandle, TypeOK
    <3>2. QED
      BY <1>0, <1>5, <2>2, <3>1, PutStutter DEF Drop, Put
  <2>3. QED
    BY <2>1, <2>2
<1>6. ASSUME NEW s \in Slots, EndBorrow(s) PROVE [Abs!Next]_Abs!vars
  BY <1>0, <1>6, PutStutter DEF EndBorrow, Put, Owning
<1>7. ASSUME NEW s \in Slots, IntoRaw(s) PROVE [Abs!Next]_Abs!vars
  BY <1>7, RekindStutter DEF IntoRaw, Rekind, Owning
<1>8. ASSUME NEW s \in Slots, FromRaw(s) PROVE [Abs!Next]_Abs!vars
  BY <1>8, RekindStutter DEF FromRaw, Rekind, Owning
<1>9. ASSUME NEW s \in Slots, OwnedIntoFile(s) PROVE [Abs!Next]_Abs!vars
  BY <1>9, RekindStutter DEF OwnedIntoFile, Rekind, Owning
<1>10. ASSUME NEW s \in Slots, IntoOwned(s) PROVE [Abs!Next]_Abs!vars
  BY <1>10, RekindStutter DEF IntoOwned, Rekind, Owning
<1>11. ASSUME NEW t \in Slots, AsHandleStd(t) PROVE [Abs!Next]_Abs!vars
  <2>1. BorrowOf(stdh, StdOwner) \in Val /\ BorrowOf(stdh, StdOwner).kind \notin Owning
    BY DEF BorrowOf, Val, Kinds, Owning, TypeOK, RawHandle
  <2>2. QED
    BY <1>11, <2>1, PutStutter DEF AsHandleStd, Put, IsEmpty, Owning
<1>12. ASSUME NEW s \in Slots, Spawn(s) PROVE [Abs!Next]_Abs!vars
  <2>1. PICK h \in Handles \ open, k \in {"Pipe", "Join"} :
             /\ open' = open \cup {h}
             /\ Put(s, Hold(k, h))
    BY <1>12 DEF Spawn
  <2>2. QED
    BY <1>12, <2>1, FreshAcquire DEF Spawn, Put, Owning
<1>13. ASSUME NEW s \in Slots, NEW t \in Slots, AsHandle(s, t)
       PROVE [Abs!Next]_Abs!vars
  <2> DEFINE b == BorrowOf(slot[s].h,
                           IF slot[s].kind = "Borrowed" THEN slot[s].from ELSE s)
  <2>1. b \in Val /\ b.kind \notin Owning
    <3>1. slot[s].h \in RawHandle /\ slot[s].from \in Slots \cup {NoSlot, StdOwner}
      BY DEF TypeOK, Val
    <3>2. QED
      BY <3>1 DEF BorrowOf, Val, Kinds, Owning
  <2>2. QED
    BY <1>13, <2>1, PutStutter DEF AsHandle, Put, IsEmpty, Owning
<1>14. ASSUME NEW s \in Slots, NEW t \in Slots, Duplicate(s, t)
       PROVE [Abs!Next]_Abs!vars
  <2>1. slot[t].kind \notin Owning /\ stdh' = stdh
    BY <1>14 DEF Duplicate, IsEmpty, Owning
  <2>2. CASE slot[s].h = NULL
    <3>1. Hold("Owned", NULL) \in Val /\ Hold("Owned", NULL).h \notin Handles
      BY ValuesTyped DEF Hold, Kinds, Owning, RawHandle
    <3>2. QED
      BY <1>14, <2>1, <2>2, <3>1, PutStutter DEF Duplicate, Put
  <2>3. CASE slot[s].h # NULL /\ open' # open
    <3>1. PICK h \in Handles \ open :
             /\ open' = open \cup {h}
             /\ Put(t, Hold("Owned", h))
      BY <1>14, <2>3 DEF Duplicate
    <3>2. QED
      BY <1>14, <2>1, <3>1, FreshAcquire DEF Duplicate, Put, IsEmpty, Owning
  <2>4. CASE slot[s].h # NULL /\ open' = open
    <3>1. UNCHANGED slot
      BY <1>14, <2>4 DEF Duplicate, Put
    <3>2. QED
      BY <2>1, <2>4, <3>1, AbsStutter, StutterStep DEF Holders
  <2>5. QED
    BY <2>2, <2>3, <2>4
<1>15. CASE UNCHANGED vars
  BY <1>15, AbsStutter, StutterStep DEF vars, Holders
<1>16. QED
  BY <1>1, <1>2, <1>3, <1>4, <1>5, <1>6, <1>7, <1>8, <1>9, <1>10, <1>11,
     <1>12, <1>13, <1>14, <1>15 DEF Next

(* The handle wrappers implement Ownership: every behaviour of Handle,     *)
(* mapped by AbsHolders, is a behaviour of the abstract specification.     *)
THEOREM Refinement == Spec => AbsSpec
<1>1. Spec => [](TypeOK /\ ExclusiveOwnership)
  BY CoreInv
<1>2. QED
  BY <1>1, InitAbs, NextAbs, PTL DEF Spec, AbsSpec, Abs!Spec
=============================================================================
