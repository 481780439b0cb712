# Verification of the handle and socket ownership wrappers

This directory holds TLA+ models of the parts of this repository that keep
state or compute something worth checking: the Windows I/O ownership
wrappers in `src/src/std/os/windows/io/`, and the `iswpunct` table lookup of
`dlibc`. There are TLC configurations that model-check them on small
instances. There are also TLAPS proofs, for every instance, of their type and
safety invariants and of their refinement of one abstract ownership spec.

## The system and its parts

| Part | Source | Model | Status |
|------|--------|-------|--------|
| Handle wrappers: `OwnedHandle`, `BorrowedHandle`, `HandleOrNull`, `HandleOrInvalid`, the `TryFrom` checks, `try_clone`/`DuplicateHandle`, and the `File`/`ChildStdin`/`JoinHandle` conversions | `windows/io/handle.rs` | `Handle.tla`, `HandleProofs.tla`, `Ownership.tla` | modelled |
| Socket wrappers: `OwnedSocket`, `BorrowedSocket`, `try_clone_to_owned` with its fallback and `set_no_inherit`, and the `TcpStream`/`TcpListener`/`UdpSocket` conversions | `windows/io/socket.rs` | `Socket.tla`, `SocketProofs.tla`, `Ownership.tla` | modelled |
| Capability traits: `AsHandle`/`AsSocket` forwarding through `&T`, `&mut T`, `Arc`, `Rc`, `Box` | both files | the `AsHandle`/`AsSocket` actions | modelled |
| wctype punctuation table | `dlibc/src/unix/header/wctype/punct.rs` | `Punct.tla`, `PunctProofs.tla` | modelled |
| Redox `MetadataExt` | `std/os/redox/fs.rs` | none | not modelled: field getters with no state |
| WASI module | `std/os/wasi/mod.rs` | none | not modelled: re-exports only |

The wrappers interact with the operating system's handle table (or socket
table). A wrapper that owns a value must close it exactly once. A borrow must
not outlive its owner. A failure sentinel returned by an API call must never
become an owned value. The hard cases are:

- the kernel reusing a value after it is closed, so a double close hits
  another owner;
- the value -1, which is both `INVALID_HANDLE_VALUE` and the current-process
  pseudo handle;
- `GetLastError` being overwritten between the failing call and the caller
  reading it;
- `try_clone_to_owned`, which issues several system calls in sequence. Other
  threads run between those calls, and any of the calls may fail.

## How the models map to the code

**Handle.tla.** The state has four parts:

- `open` is the set of real handle values that are open in the process.
- `slot` maps each program variable (a model value in `Slots`) to what it
  holds. Each entry is a record of the wrapper kind, the raw value, the owner
  a borrow was taken from, and whether the value is an API failure sentinel.
- `lastError` models `GetLastError`.
- `stdh` is the standard handle. It is either NULL (detached) or a real
  handle.

There is one action per operation:

- `CreateOrNull` and `CreateOrInvalid`: an API call wrapped by
  `HandleOrNull::from_raw_handle` or `HandleOrInvalid::from_raw_handle`.
- `TryFromNull` and `TryFromInvalid`: the two `TryFrom` impls. On failure
  they `forget` the value, so nothing is closed and the error code is kept.
- `Drop`: `impl Drop`, which calls `CloseHandle`.
- `IntoRaw`, `FromRaw`, `AsHandle` and `AsHandleStd`. The borrow actions are
  guarded by `Unborrowed` for a move or drop, which is the borrow checker's
  lifetime rule.
- `Duplicate`: `try_clone_to_owned` and `duplicate`, including the NULL
  shortcut.
- `OwnedIntoFile`, `IntoOwned` and `Spawn`. `Spawn` models the OS layer,
  which is not under `src/` and is modelled from the spec.

`CloseHandle(v)` removes `v` from `open`. It leaves `lastError` alone for an
open handle or the pseudo handle, and sets `ERROR_INVALID_HANDLE` otherwise.

**Socket.tla.** The state has four parts:

- `sopen` is the set of open sockets.
- `inheritable` is the set of open sockets whose inherit flag is set.
- `slot` is as in `Handle.tla`.
- `uwp` records whether this is a UWP build, where `set_no_inherit` always
  fails.

`try_clone_to_owned` is split into one action per system call:

- `TryCloneDuplicate` is `WSADuplicateSocketW`.
- `TryCloneSocketWithFlag` is `WSASocketW` with `WSA_FLAG_NO_HANDLE_INHERIT`.
- `TryCloneSocketFallback` is the retry without that flag after
  `WSAEPROTOTYPE`/`WSAEINVAL`.
- `TryCloneSetNoInherit` is `SetHandleInformation`. On error, the `?` drops
  the new socket, which closes it.

A cloning slot has kind `"Cloning"`, and its stage field says which call comes
next. The other actions mirror those of the handle model. `Bind` is the
environment creating a socket.

The clone's steps are also grouped as `TryCloneStep(t)`, and `FairSpec`
adds weak fairness on them (see below).

**Ownership.tla** is the abstract spec that both wrappers implement. It has
two variables:

- `live` is the set of values handed out.
- `holders[v]` is the set of owners responsible for closing `v`.

It has two actions:

- `Acquire(v, o)` hands a value that is not live to one owner.
- `Release(v, o)` lets the one owner of `v` give it back.

Its `Init` allows any state in which the live values are exactly those with
an owner, and none has two owners. `Handle.tla` maps onto it as follows:

- `live` is `open`.
- `holders[h]` is the set of slots holding `h` in an owning kind, plus
  `StdOwner` when `h` is the standard handle.

`Socket.tla` maps `live` to `sopen`, and `holders[x]` to `Holders(x)`. A
clone in stage `NoInherit` counts as a holder.

Under these mappings, the steps correspond as follows:

- Every successful `CreateFileW`-like call, `DuplicateHandle`, `WSASocketW`
  or `Bind` is an `Acquire`.
- Every `Drop`, and the error path of `set_no_inherit`, is a `Release`.
- Every move, borrow, `into_raw`/`from_raw`, conversion and failed call is a
  stutter.

`AbsSpec` is the instantiated spec (`INSTANCE Ownership WITH ...`), checked as
a `PROPERTY`.

**Punct.tla** models `is(wc)` of `punct.rs`:

- `Table` holds the 4000 bytes of the table. It is written as musl lays it
  out: `PageIndex`, the 512-byte first level (blocks 0..15), concatenated
  with `Bitmaps1`..`Bitmaps4`, four runs of whole 32-byte bitmap blocks
  (16..42, 43..69, 70..96, 97..124). The value is the Rust array byte for
  byte. The split is there so that the prover can read one run at a time.
- `At(i)` is Rust's bounds-checked index. It returns `Panic` past the end.
- The shifts and masks are written arithmetically: `x >> n` is `x \div 2^n`,
  and `x & 255` is `x % 256`.

The one action, `Query`, moves `wc` to the next code point, up to 0x20001,
and records `is(wc)`. One run thus evaluates the function on every input
that has a distinct path through the code, and on both sides of the 0x20000
cut-off.

`PROJECT.json` ("map") lists the source lines behind every definition.

## Runs

| Run | Config | Expect | Checks |
|-----|--------|--------|--------|
| handle_safety | `MCHandle.cfg` | pass | `TypeOK`, `ExclusiveOwnership`, `NoDanglingBorrow`, `FailedCallNeverOwned`, `AbsSpec` |
| handle_dup_null | `MCHandle_dup.cfg` | violation | `DistinctOwnedIds` |
| handle_ornull_drop | `MCHandle_ornull.cfg` | violation | `OrNullDropKeepsLastError` |
| socket_safety | `MCSocket.cfg` | pass | `TypeOK`, `ExclusiveOwnership`, `NoDanglingBorrow`, `InheritableOnlyInClone`, `NoInvalidSocket`, `AbsSpec` |
| socket_clone_completes | `MCSocket_live.cfg` | pass | `CloneCompletes` under `FairSpec` |
| punct_table | `Punct.cfg` | pass | `TypeOK`, `NoPanic`, `AsciiAgrees` |

What the properties say:

- `ExclusiveOwnership`: every open value has exactly one party responsible
  for closing it. That party is one slot, or the process for the standard
  handle. No closed value is still held by an owner.
- `NoDanglingBorrow`: every borrowed value is open.
- `FailedCallNeverOwned`: a failure sentinel stays inside the `HandleOrNull`
  or `HandleOrInvalid` that the API returned.
- `InheritableOnlyInClone`: an inheritable socket exists only between the
  fallback `WSASocketW` and its `SetHandleInformation`.
- `NoInvalidSocket`: no held socket is `INVALID_SOCKET`.
- `AbsSpec`: the wrappers implement `Ownership` under the mappings above. No
  value is acquired twice, and none is closed by anyone but its one owner.
- Drops are not checked by a property of their own. Given
  `ExclusiveOwnership`, a dropping slot holds an open handle, the pseudo
  handle or NULL, and a dropping socket slot holds an open socket. So
  `Drop` ignoring the result of `CloseHandle` or `closesocket` is sound
  without a further check. Likewise a clone that returns an `OwnedSocket`
  is not inheritable, by `InheritableOnlyInClone` and `ExclusiveOwnership`.
- `CloneCompletes`: every `try_clone_to_owned` that has got past
  `WSADuplicateSocketW` returns, with a socket or with an error.
- `NoPanic`: for every `wc`, both table reads are inside the 4000 bytes. The
  furthest read is block 124 of the first level, index 3999, so there is no
  slack.
- `AsciiAgrees`: on ASCII, `is` returns 1 exactly for the characters that C's
  `ispunct` classifies as punctuation. This checks the bit order and the
  page-0 block.

The two violation runs are disagreements between the code and its
documentation:

- **handle_dup_null** (`handle.rs:190`). Duplicating a NULL standard handle
  returns an `OwnedHandle` holding NULL again. Two `OwnedHandle`s then share
  one id, although the spec says that clones carry distinct handle values.
  Both of them later call `CloseHandle(NULL)`.
- **handle_ornull_drop** (`handle.rs:85`). The doc comment says that a
  `HandleOrNull` holding NULL can be dropped safely. Dropping it calls
  `CloseHandle(NULL)`, which overwrites the `GetLastError` code that the
  caller has not read yet.

**Bounds.** Each model has three slots and three real values, as model values
under symmetry. Three slots are enough for an owner, a borrow of it, and a
third slot that receives a reused value or a clone. Three values let a closed
value be reused while the other two are still live. The handle model reaches
3175 distinct states (depth 12) and the socket model 384 (depth 10). Every
action fires in these runs, including the UWP and desktop branches of
`set_no_inherit`. The liveness run has no symmetry, since symmetry is unsound
for liveness, and reaches 10628 states. The punct run covers every input up
to 0x20001, which is 131074 states. That is all of the function's domain
that matters, not a sample.

**Mutants.** Each property of a passing run is broken by a plausible bug
introduced into the mapped code. Each bug below has its own operator, placed
beside the definition it replaces:

- `Duplicate` that does not duplicate.
- A borrow with no lifetime guard.
- `TryFrom<HandleOrInvalid>` that compares against NULL.
- A NULL standard handle counted as open.
- `set_no_inherit` skipped, or leaking the socket on error.
- A fallback that does not check for `INVALID_SOCKET`.
- `closesocket` that leaves the inherit flag set.
- `into_raw_handle` without its `forget`, which closes the handle the caller
  now holds. This one breaks `AbsSpec`.
- `set_no_inherit` whose error path retries the fallback instead of
  returning. This one breaks `CloneCompletes`.
- For `is`: the `& 1` mask dropped, `>> 2` instead of `>> 3`, and the bits
  read in reverse order.

**Fairness and liveness.** `FairSpec` assumes weak fairness of
`TryCloneStep(t)` for each slot `t`. This is the thread running
`try_clone_to_owned`: straight-line code whose Winsock calls return, so it is
not starved while it can take a step. Nothing else is assumed fair. Whether a
value is ever dropped is up to the program that uses the wrappers, not this
code. Under this fairness, `CloneCompletes` holds, whatever the other slots
do. A retry loop on the error path breaks it. Deadlock checking is on, and
every state has a successor (at least `Bind`/`Spawn` or `Drop`).

## What is proved

`HandleProofs.tla` proves, for every set of slots and handle values that
satisfies `HandleAssumption` (the sentinels are distinct and are not real
values):

- `TypeCorrect`: `Spec => []TypeOK`.
- `Ownership`: `Spec => []ExclusiveOwnership`. `ExclusiveOwnership` is
  inductive together with `TypeOK`. The proof has one step per action.
- `BorrowSafety`: `Spec => []NoDanglingBorrow`, and `SentinelSafety`:
  `Spec => []FailedCallNeverOwned`. Neither property is inductive on its own.
  A `Drop` of an owner whose borrow lives would break `NoDanglingBorrow`. A
  `Rekind` of a failed `HandleOrNull` into an `OwnedHandle` would break
  `FailedCallNeverOwned`. The proofs therefore use the strengthening
  `IInv = TypeOK /\ ExclusiveOwnership /\ BorrowTracksOwner /\ FailedIsSentinel`.
  - `BorrowTracksOwner` says that a borrow points at a live owner that holds
    the same value, or at the standard handle. So `Unborrowed` on the owner
    rules the drop out.
  - `FailedIsSentinel` says that a failed value is the sentinel of its own
    wrapper. So the `TryFrom` guards reject it.

The proofs rest on typing lemmas for `Put`, `Rekind` and the record
constructors.

`SocketProofs.tla` proves, under `SocketAssumption` (`INVALID_SOCKET` is not
a real socket and `NoSlot` is not a slot):

- `TypeCorrect`: `Spec => []TypeOK`, where `TypeOK` includes
  `inheritable \subseteq sopen`.
- `Ownership`: `Spec => []ExclusiveOwnership`. As for handles, this is
  inductive together with `TypeOK`. The key steps are that `WSASocketW` and
  `Bind` return a socket that is not open, and therefore has no holder, and
  that a clone in stage `NoInherit` is the holder of its new socket until
  `set_no_inherit` either returns it or closes it.
- `NoInheritLeak`: `Spec => []InheritableOnlyInClone`, and `ValidSockets`:
  `Spec => []NoInvalidSocket`. These two are proved together as
  `CloneSafe`, which is inductive given `TypeOK`. The only inheritable
  socket ever created goes into the clone that asked for it. No step other
  than `set_no_inherit` touches a clone in stage `NoInherit`. Every value
  stored outside `Empty` and the protocol-info stage is a socket that has
  been checked against `INVALID_SOCKET`.
- `BorrowSafety`: `Spec => []NoDanglingBorrow`. As for handles, this uses the
  strengthening `BorrowTracksOwner`: a borrow points at the slot it was taken
  from, which still owns the same socket. A copy of a borrow passes on the
  owner. `Unborrowed` keeps the owner from being dropped, converted or made
  raw while the borrow lives. `ExclusiveOwnership` then puts the owner's
  socket in `sopen`.

Both proof modules also prove `Refinement`: `Spec => AbsSpec`. The proof is
laid out in three parts:

- `Init` maps to `Abs!Init`.
- Under the invariant, each step maps to `Abs!Next` or a stutter. There is
  one proof step per action.
- PTL combines the two.

For handles, the invariant is `TypeOK /\ ExclusiveOwnership`. For sockets,
it is `TypeOK /\ ExclusiveOwnership /\ CloneSafe`. `NoInvalidSocket` is
needed so that a dropped socket is a real value. The lemmas compute how
storing a value into one slot changes the holders of a value (`PutHolders`,
`SPutHolders`). From that they give the three shapes of step:

- a stutter (`PutStutter`, `RekindStutter`);
- a fresh acquire (`FreshAcquire`, `SFreshAcquire`);
- a release (`AbsRelease`, `SRelease`).

Each proof module states the invariant once (`CoreInv`, `Spec => []Inv`),
and the invariant theorems and the refinement follow from it by PTL.

`PunctProofs.tla` proves the three invariants of the punct_table run for
the whole table:

- `TypeCorrect`: `Spec => []TypeOK`;
- `NeverPanics`: `Spec => []NoPanic`;
- `AsciiCorrect`: `Spec => []AsciiAgrees`.

The invariant of the scan, `IInv`, says that `wc` is in range and
`res = is(wc)`. It is inductive because `Query` recomputes `res` for the new
`wc`. The work is in two lemmas about `is` itself:

- `IsBit`: `is(c) \in {0, 1}` for every `c` in `0..WcBound`. For
  `c < 0x20000`, the page `c >> 8` is in `0..511`. Its index entry is a
  block number in `16..124` (`PageBlock`), so
  `block * 32 + ((c & 255) >> 3)` is at most 3999. That second read is
  therefore in bounds, and it returns a byte (`TableByte`). A byte shifted
  and masked with `& 1` is a bit.
- `IsAscii`: on `0..127`, `is(c)` is 1 exactly on `AsciiPunct`. Page 0 is
  block 18 (`AsciiBlock`), whose first 16 bytes lie in `Bitmaps1`.
  `AsciiBits` checks each of the 8 bit positions over the 16 bytes.

The table lemmas (`TableSeq`, `TablePrefix`, `TableIndex`, `TableBitmaps1`)
follow from `ConcatAt`, a restatement of `ConcatProperties` from
SequenceTheorems. Each run's own facts (`RunsSeq`, `RunsLen`) are proved
from its literal.

The one-tuple form of the table could not be proved. Every obligation over a
tuple of more than about 1000 literals ends in "backend errors". Each run is
below that size.

**Left to TLC.** The two violation properties are counterexamples, not
theorems. `CloneCompletes` stays with TLC, because TLAPS does not handle
fairness or `ENABLED`.

## Not modelled

- `std/os/redox/fs.rs`: `MetadataExt` getters that copy fields of a `stat`
  structure. There is no state and no branch, so a model would restate the
  field names.
- `std/os/wasi/mod.rs`: module declarations and re-exports, with no code
  that runs.
- Formatting (`Debug`) and `is_terminal` in the wrappers are queries with no
  effect on ownership.

## Plan

Every invariant of the passing runs, and both refinements, are proved for
all instances, the table facts included. The exception is the liveness
property, which stays with TLC for the reason above. What is left is outside
`src/` or has no state.
