------------------------------- MODULE Handle -------------------------------
(***************************************************************************)
(* Owned and borrowed Windows handles (src/src/std/os/windows/io/handle.rs) *)
(* over a model of the process handle table.                               *)
(*                                                                         *)
(* The program's variables are a set Slots; each slot holds nothing or one *)
(* value: an OwnedHandle, a HandleOrNull, a HandleOrInvalid, a File, a     *)
(* child pipe end (ChildStdin/ChildStdout/ChildStderr), a JoinHandle, a    *)
(* bare RawHandle returned by into_raw_handle (whose close obligation the  *)
(* holder keeps), or a BorrowedHandle tied to the slot it was borrowed     *)
(* from.  The kernel side is the set of open handle values, the calling    *)
(* thread's GetLastError value, and the process's standard handle, which   *)
(* is NULL when the console is detached.  Raw values are NULL, INVALID     *)
(* (the value -1, which is both INVALID_HANDLE_VALUE and the pseudo handle *)
(* of the current process) and the real handle values Handles, which the   *)
(* kernel reuses once they are closed.                                     *)
(***************************************************************************)
EXTENDS Naturals

CONSTANTS
  Slots,      \* program variables that can hold a handle value
  Handles,    \* real handle values the kernel can hand out
  NULL,       \* the raw value 0
  INVALID,    \* the raw value -1
  NoSlot,     \* "not borrowed from a slot"
  StdOwner    \* "borrowed from the process's standard handle"

ASSUME HandleAssumption ==
  /\ NULL \notin Handles
  /\ INVALID \notin Handles
  /\ NULL # INVALID
  /\ NoSlot \notin Slots
  /\ StdOwner \notin Slots
  /\ NoSlot # StdOwner

VARIABLES
  open,       \* the handle values open in the process handle table
  slot,       \* slot[s]: the value the program variable s holds
  lastError,  \* GetLastError() of the calling thread
  stdh        \* the raw value GetStdHandle returns (Stdin/Stdout/Stderr)

vars == <<open, slot, lastError, stdh>>

RawHandle == {NULL, INVALID} \cup Handles

Errors == {"NoError", "ApiError", "InvalidHandle", "DupError"}

(* Kinds of values that contain an OwnedHandle, and so close it on drop,   *)
(* plus the bare RawHandle taken out by into_raw_handle.                   *)
Owning == {"Owned", "OrNull", "OrInvalid", "File", "Pipe", "Join", "Raw"}

(* Kinds that implement AsHandle.                                          *)
Borrowable == {"Owned", "File", "Pipe", "Join", "Borrowed"}

Kinds == Owning \cup {"Borrowed", "None"}

(* A slot value: kind, raw handle, the slot a borrow is tied to, and a     *)
(* history field: the value is the failure sentinel of an API call.        *)
Val == [kind : Kinds, h : RawHandle, from : Slots \cup {NoSlot, StdOwner},
        failed : BOOLEAN]

Hold(k, v) == [kind |-> k, h |-> v, from |-> NoSlot, failed |-> FALSE]

(* The failure sentinel v returned by an API call, wrapped as kind k.      *)
FailedCall(k, v) == [kind |-> k, h |-> v, from |-> NoSlot, failed |-> TRUE]

(* A BorrowedHandle of raw value v tied to the lifetime of src.            *)
BorrowOf(v, src) == [kind |-> "Borrowed", h |-> v, from |-> src, failed |-> FALSE]

Empty == Hold("None", NULL)

IsEmpty(s) == slot[s].kind = "None"

Put(s, val) == slot' = [slot EXCEPT ![s] = val]

(* Rename the kind of the value in s: a move that keeps the OwnedHandle.   *)
Rekind(s, k) == slot' = [slot EXCEPT ![s].kind = k]

-----------------------------------------------------------------------------
(* The lifetime 'handle of BorrowedHandle<'handle>: a value may be moved   *)
(* out of its slot or dropped only when no borrow of it is alive.          *)
UnborrowedLifetimeless(s) == TRUE

Unborrowed(s) ==
  \A t \in Slots : ~(slot[t].kind = "Borrowed" /\ slot[t].from = s)

(* CloseHandle(v): closing an open handle frees its value for reuse;       *)
(* closing the pseudo handle -1 does nothing; closing NULL or a value that *)
(* is not open fails with ERROR_INVALID_HANDLE, which sets GetLastError.   *)
CloseHandle(v) ==
  /\ open' = open \ {v}
  /\ lastError' = IF v \in open \/ v = INVALID THEN lastError
                                            ELSE "InvalidHandle"

(* A variant that takes a detached (NULL) standard handle as open.        *)
InitStdAlwaysOpen ==
  /\ stdh \in {NULL} \cup Handles
  /\ open = {stdh}
  /\ slot = [s \in Slots |-> Empty]
  /\ lastError = "NoError"

Init ==
  /\ stdh \in {NULL} \cup Handles
  /\ open = {stdh} \cap Handles
  /\ slot = [s \in Slots |-> Empty]
  /\ lastError = "NoError"

-----------------------------------------------------------------------------
(* An API that returns NULL on failure (CreateThread), its result wrapped  *)
(* by HandleOrNull::from_raw_handle.                                       *)
CreateOrNull(s) ==
  /\ IsEmpty(s)
  /\ \/ \E h \in Handles \ open :
          /\ open' = open \cup {h}
          /\ Put(s, Hold("OrNull", h))
          /\ UNCHANGED lastError
     \/ /\ Put(s, FailedCall("OrNull", NULL))
        /\ lastError' = "ApiError"
        /\ UNCHANGED open
  /\ UNCHANGED stdh

(* An API that returns INVALID_HANDLE_VALUE on failure (CreateFileW), its  *)
(* result wrapped by HandleOrInvalid::from_raw_handle.                     *)
CreateOrInvalid(s) ==
  /\ IsEmpty(s)
  /\ \/ \E h \in Handles \ open :
          /\ open' = open \cup {h}
          /\ Put(s, Hold("OrInvalid", h))
          /\ UNCHANGED lastError
     \/ /\ Put(s, FailedCall("OrInvalid", INVALID))
        /\ lastError' = "ApiError"
        /\ UNCHANGED open
  /\ UNCHANGED stdh

(* TryFrom<HandleOrNull> for OwnedHandle: a null handle is forgotten (no   *)
(* CloseHandle) and the conversion fails; any other value becomes owned.   *)
TryFromNull(s) ==
  /\ slot[s].kind = "OrNull"
  /\ IF slot[s].h = NULL
       THEN Put(s, Empty)
       ELSE Rekind(s, "Owned")
  /\ UNCHANGED <<open, lastError, stdh>>

TryFromInvalidWrongSentinel(s) ==
  /\ slot[s].kind = "OrInvalid"
  /\ IF slot[s].h = NULL
       THEN Put(s, Empty)
       ELSE Rekind(s, "Owned")
  /\ UNCHANGED <<open, lastError, stdh>>

(* TryFrom<HandleOrInvalid> for OwnedHandle: INVALID_HANDLE_VALUE is       *)
(* forgotten and the conversion fails; any other value becomes owned.      *)
TryFromInvalid(s) ==
  /\ slot[s].kind = "OrInvalid"
  /\ IF slot[s].h = INVALID
       THEN Put(s, Empty)
       ELSE Rekind(s, "Owned")
  /\ UNCHANGED <<open, lastError, stdh>>

(* Drop for OwnedHandle, reached by dropping any value that contains one   *)
(* (HandleOrNull, HandleOrInvalid, File, pipe ends, JoinHandle): it calls  *)
(* CloseHandle and ignores the result.                                     *)
Drop(s) ==
  /\ slot[s].kind \in Owning \ {"Raw"}
  /\ Unborrowed(s)
  /\ CloseHandle(slot[s].h)
  /\ Put(s, Empty)
  /\ UNCHANGED stdh

(* The end of a BorrowedHandle (it is Copy and has no Drop).               *)
EndBorrow(s) ==
  /\ slot[s].kind = "Borrowed"
  /\ Put(s, Empty)
  /\ UNCHANGED <<open, lastError, stdh>>

(* A variant of into_raw_handle without mem::forget: the OwnedHandle's     *)
(* Drop still runs and closes the handle the caller now holds raw.         *)
IntoRawNoForget(s) ==
  /\ slot[s].kind = "Owned"
  /\ Unborrowed(s)
  /\ Rekind(s, "Raw")
  /\ CloseHandle(slot[s].h)
  /\ UNCHANGED stdh

(* IntoRawHandle for OwnedHandle: take the value and forget the owner.     *)
IntoRaw(s) ==
  /\ slot[s].kind = "Owned"
  /\ Unborrowed(s)
  /\ Rekind(s, "Raw")
  /\ UNCHANGED <<open, lastError, stdh>>

(* FromRawHandle for OwnedHandle.                                          *)
FromRaw(s) ==
  /\ slot[s].kind = "Raw"
  /\ Rekind(s, "Owned")
  /\ UNCHANGED <<open, lastError, stdh>>

(* AsHandle for OwnedHandle, File, the pipe ends and JoinHandle borrows    *)
(* the raw value for the lifetime of the owner; AsHandle for a             *)
(* BorrowedHandle copies it under the same lifetime.                       *)
AsHandle(s, t) ==
  /\ slot[s].kind \in Borrowable
  /\ IsEmpty(t)
  /\ Put(t, BorrowOf(slot[s].h,
                     IF slot[s].kind = "Borrowed" THEN slot[s].from ELSE s))
  /\ UNCHANGED <<open, lastError, stdh>>

(* AsHandle for Stdin, Stdout, Stderr and their locks: borrow_raw of the   *)
(* process's standard handle, which may be NULL.                           *)
AsHandleStd(t) ==
  /\ IsEmpty(t)
  /\ Put(t, BorrowOf(stdh, StdOwner))
  /\ UNCHANGED <<open, lastError, stdh>>

(* OwnedHandle::try_clone and BorrowedHandle::try_clone_to_owned, both     *)
(* BorrowedHandle::duplicate with DUPLICATE_SAME_ACCESS: a null handle is  *)
(* "duplicated" by wrapping the same NULL in a new OwnedHandle, without    *)
(* DuplicateHandle; any other value is duplicated by the kernel, which     *)
(* fails for a value that is not open.                                     *)
DuplicateNoDup(s, t) ==
  /\ slot[s].kind \in Borrowable
  /\ IsEmpty(t)
  /\ Put(t, Hold("Owned", slot[s].h))
  /\ UNCHANGED <<open, lastError, stdh>>

Duplicate(s, t) ==
  /\ slot[s].kind \in Borrowable
  /\ IsEmpty(t)
  /\ LET v == slot[s].h IN
       IF v = NULL
         THEN /\ Put(t, Hold("Owned", NULL))
              /\ UNCHANGED <<open, lastError>>
         ELSE \/ /\ v \in open \cup {INVALID}
                 /\ \E h \in Handles \ open :
                      /\ open' = open \cup {h}
                      /\ Put(t, Hold("Owned", h))
                 /\ UNCHANGED lastError
              \/ /\ lastError' = "DupError"
                 /\ UNCHANGED <<open, slot>>
  /\ UNCHANGED stdh

(* From<OwnedHandle> for File.                                             *)
OwnedIntoFile(s) ==
  /\ slot[s].kind = "Owned"
  /\ Unborrowed(s)
  /\ Rekind(s, "File")
  /\ UNCHANGED <<open, lastError, stdh>>

(* From<File>, From<ChildStdin/ChildStdout/ChildStderr> (by into_raw_handle *)
(* then from_raw_handle) and From<JoinHandle<T>> for OwnedHandle.           *)
IntoOwned(s) ==
  /\ slot[s].kind \in {"File", "Pipe", "Join"}
  /\ Unborrowed(s)
  /\ Rekind(s, "Owned")
  /\ UNCHANGED <<open, lastError, stdh>>

(* The rest of the standard library opening a handle held by a child pipe *)
(* end (Command::spawn) or a JoinHandle (thread::spawn).                   *)
Spawn(s) ==
  /\ IsEmpty(s)
  /\ \E h \in Handles \ open, k \in {"Pipe", "Join"} :
       /\ open' = open \cup {h}
       /\ Put(s, Hold(k, h))
  /\ UNCHANGED <<lastError, stdh>>

Next ==
  \/ \E s \in Slots :
       \/ CreateOrNull(s) \/ CreateOrInvalid(s)
       \/ TryFromNull(s) \/ TryFromInvalid(s)
       \/ Drop(s) \/ EndBorrow(s)
       \/ IntoRaw(s) \/ FromRaw(s)
       \/ OwnedIntoFile(s) \/ IntoOwned(s)
       \/ AsHandleStd(s) \/ Spawn(s)
  \/ \E s, t \in Slots : AsHandle(s, t) \/ Duplicate(s, t)

Spec == Init /\ [][Next]_vars

-----------------------------------------------------------------------------
TypeOK ==
  /\ open \subseteq Handles
  /\ slot \in [Slots -> Val]
  /\ lastError \in Errors
  /\ stdh \in {NULL} \cup Handles

(* The slots whose value holds the close obligation of raw value h.        *)
Holders(h) == {s \in Slots : slot[s].kind \in Owning /\ slot[s].h = h}

(* Exactly-once close (Drop, into_raw_handle, the From conversions and     *)
(* duplicate): a real handle is open exactly when one party is responsible *)
(* for closing it -- one slot, or the process for its standard handle --   *)
(* so no open handle leaks and none has two owners that would both close   *)
(* it (the second close hitting a reused value).                           *)
ExclusiveOwnership ==
  \A h \in Handles :
    /\ h \in open <=> (h = stdh \/ Holders(h) # {})
    /\ \A s1, s2 \in Holders(h) : s1 = s2
    /\ h = stdh => Holders(h) = {}

(* A BorrowedHandle (from AsHandle on an owner, a copy of a borrow, or the *)
(* standard handle) never outlives the handle: its real value stays open.  *)
NoDanglingBorrow ==
  \A t \in Slots :
    (slot[t].kind = "Borrowed" /\ slot[t].h \in Handles) => slot[t].h \in open

(* The sentinel check of TryFrom<HandleOrNull> and TryFrom<HandleOrInvalid> *)
(* lets no failure sentinel of an API call become an OwnedHandle, File or  *)
(* any other usable value.                                                 *)
FailedCallNeverOwned ==
  \A s \in Slots : slot[s].failed => slot[s].kind \in {"OrNull", "OrInvalid"}

(* Strengthening used by the proofs: a borrow points at the live owner it  *)
(* was taken from (or at the standard handle) and carries its value, and a *)
(* failure sentinel sits only in the wrapper of the API that returned it.  *)
BorrowTracksOwner ==
  \A t \in Slots :
    slot[t].kind = "Borrowed" =>
      \/ slot[t].from = StdOwner /\ slot[t].h = stdh
      \/ /\ slot[t].from \in Slots
         /\ slot[slot[t].from].kind \in Borrowable \ {"Borrowed"}
         /\ slot[slot[t].from].h = slot[t].h

FailedIsSentinel ==
  \A s \in Slots :
    slot[s].failed =>
      \/ slot[s].kind = "OrNull" /\ slot[s].h = NULL
      \/ slot[s].kind = "OrInvalid" /\ slot[s].h = INVALID

IInv ==
  /\ TypeOK
  /\ ExclusiveOwnership
  /\ BorrowTracksOwner
  /\ FailedIsSentinel

(* Spec section 8: duplicate-to-owned yields an id different from the      *)
(* source's, so no raw value is held by two values that own an             *)
(* OwnedHandle (OwnedHandle, File, pipe ends, JoinHandle, a taken raw).    *)
DistinctOwnedIds ==
  \A s1, s2 \in Slots :
    (/\ s1 # s2
     /\ slot[s1].kind \in Owning \ {"OrNull", "OrInvalid"}
     /\ slot[s2].kind \in Owning \ {"OrNull", "OrInvalid"})
      => slot[s1].h # slot[s2].h

(* The HandleOrNull doc comment: only a non-null HandleOrNull closes its   *)
(* handle on drop, so dropping one leaves GetLastError alone (the comment  *)
(* in TryFrom<HandleOrNull> notes that CloseHandle would overwrite it).    *)
OrNullDropKeepsLastError ==
  [][\A s \in Slots :
       (slot[s].kind = "OrNull" /\ Drop(s)) => lastError' = lastError]_vars
-----------------------------------------------------------------------------
(* The refinement mapping to Ownership: the live values are the open real *)
(* handles, and the owners of one are the slots holding it and, for the    *)
(* standard handle, the process.                                           *)
AbsHolders ==
  [h \in Handles |-> Holders(h) \cup (IF h = stdh THEN {StdOwner} ELSE {})]

Abs == INSTANCE Ownership WITH
  Values <- Handles, Owners <- Slots \cup {StdOwner},
  live <- open, holders <- AbsHolders

(* Every step of the handle wrappers is a step of Ownership: a real handle *)
(* is handed to one owner only while it is not open (CreateFileW,          *)
(* DuplicateHandle, a spawned child's pipes) and is closed only by the one *)
(* slot that owns it; moves, borrows, into_raw/from_raw and failed calls   *)
(* change no ownership.                                                    *)
AbsSpec == Abs!Spec
=============================================================================
