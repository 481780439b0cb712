------------------------------- MODULE Socket -------------------------------
(***************************************************************************)
(* Owned and borrowed Windows sockets (src/src/std/os/windows/io/socket.rs) *)
(* over a model of the Winsock socket table.                               *)
(*                                                                         *)
(* As in Handle, the program's variables are Slots.  A slot holds nothing, *)
(* an OwnedSocket, a TcpStream, a TcpListener, a UdpSocket, a bare         *)
(* RawSocket taken by into_raw_socket, a BorrowedSocket tied to the slot   *)
(* it was borrowed from, or a call of BorrowedSocket::try_clone_to_owned   *)
(* in progress: try_clone_to_owned makes up to four system calls in turn   *)
(* (WSADuplicateSocketW, WSASocketW with WSA_FLAG_NO_HANDLE_INHERIT, then  *)
(* WSASocketW without it and SetHandleInformation on systems that reject   *)
(* the flag), and other threads run between them.  The kernel side is the *)
(* set of open sockets and the subset that child processes would inherit. *)
(***************************************************************************)
EXTENDS Naturals

CONSTANTS
  Slots,           \* program variables that can hold a socket value
  Sockets,         \* real socket values Winsock can hand out
  INVALID_SOCKET,  \* the raw value !0
  NoSlot           \* "not borrowed from a slot"

ASSUME SocketAssumption ==
  /\ INVALID_SOCKET \notin Sockets
  /\ NoSlot \notin Slots

VARIABLES
  sopen,        \* the sockets open in the process
  inheritable,  \* the open sockets with HANDLE_FLAG_INHERIT set
  slot,         \* slot[s]: the value the program variable s holds
  uwp           \* the build targets UWP (target_vendor = "uwp")

vars == <<sopen, inheritable, slot, uwp>>

RawSocket == {INVALID_SOCKET} \cup Sockets

(* Kinds holding an OwnedSocket, closed on drop, and the bare RawSocket.   *)
Owning == {"Owned", "Tcp", "Listener", "Udp", "Raw"}

(* Kinds that implement AsSocket.                                          *)
Borrowable == {"Owned", "Tcp", "Listener", "Udp", "Borrowed"}

(* The points of try_clone_to_owned between two system calls: after        *)
(* WSADuplicateSocketW filled the protocol info, after the first WSASocketW *)
(* failed with WSAEPROTOTYPE or WSAEINVAL, and after the second WSASocketW *)
(* returned a socket that set_no_inherit has not yet made non-inheritable. *)
Stages == {"Info", "Fallback", "NoInherit"}

Kinds == Owning \cup {"Borrowed", "Cloning", "None"}

(* A slot value: kind, raw socket, the slot a borrow is tied to (for a     *)
(* clone in progress: the slot of the socket being cloned), and the stage. *)
Val == [kind : Kinds, sock : RawSocket, from : Slots \cup {NoSlot},
        stage : Stages]

Hold(k, v) == [kind |-> k, sock |-> v, from |-> NoSlot, stage |-> "Info"]

Empty == Hold("None", INVALID_SOCKET)

Cloning(v, src, st) == [kind |-> "Cloning", sock |-> v, from |-> src, stage |-> st]

IsEmpty(s) == slot[s].kind = "None"

Put(s, val) == slot' = [slot EXCEPT ![s] = val]

Rekind(s, k) == slot' = [slot EXCEPT ![s].kind = k]

(* The slot whose lifetime a borrow of s is tied to.                       *)
OwnerOf(s) == IF slot[s].kind = "Borrowed" THEN slot[s].from ELSE s

(* The socket an in-progress clone owns, once the second WSASocketW has    *)
(* returned it.                                                            *)
ClonedSocketHeld(s) == slot[s].kind = "Cloning" /\ slot[s].stage = "NoInherit"

-----------------------------------------------------------------------------
(* The lifetime 'socket of BorrowedSocket<'socket> and the &self of        *)
(* try_clone_to_owned: a value is moved or dropped only when no borrow of  *)
(* it and no clone of it is in progress.                                   *)
UnborrowedLifetimeless(s) == TRUE

Unborrowed(s) ==
  \A t \in Slots : ~(slot[t].kind \in {"Borrowed", "Cloning"} /\ slot[t].from = s)

(* A variant of closesocket that leaves the inherit flag of the value set. *)
CloseSocketKeepsFlag(v) ==
  /\ sopen' = sopen \ {v}
  /\ UNCHANGED inheritable

(* closesocket(v).                                                         *)
CloseSocket(v) ==
  /\ sopen' = sopen \ {v}
  /\ inheritable' = inheritable \ {v}

(* A fresh socket from WSASocketW, inheritable unless                      *)
(* WSA_FLAG_NO_HANDLE_INHERIT was passed.                                  *)
OpenSocket(v, inherit) ==
  /\ v \in Sockets \ sopen
  /\ sopen' = sopen \cup {v}
  /\ inheritable' = IF inherit THEN inheritable \cup {v} ELSE inheritable

Init ==
  /\ sopen = {}
  /\ inheritable = {}
  /\ slot = [s \in Slots |-> Empty]
  /\ uwp \in BOOLEAN

-----------------------------------------------------------------------------
(* try_clone_to_owned (and OwnedSocket::try_clone, which borrows first),   *)
(* up to WSADuplicateSocketW: it fails for a socket that is not open; on   *)
(* success the clone in t holds the protocol info of the source.           *)
TryCloneDuplicate(s, t) ==
  /\ slot[s].kind \in Borrowable
  /\ IsEmpty(t)
  /\ slot[s].sock \in sopen
  /\ Put(t, Cloning(slot[s].sock, OwnerOf(s), "Info"))
  /\ UNCHANGED <<sopen, inheritable, uwp>>

(* The first WSASocketW, with WSA_FLAG_NO_HANDLE_INHERIT: a new socket     *)
(* that is never inheritable, or an error returned to the caller, or, for  *)
(* WSAEPROTOTYPE and WSAEINVAL, the fallback.                              *)
TryCloneSocketWithFlag(t) ==
  /\ slot[t].kind = "Cloning" /\ slot[t].stage = "Info"
  /\ \/ \E v \in Sockets :
          /\ OpenSocket(v, FALSE)
          /\ Put(t, Hold("Owned", v))
     \/ /\ Put(t, Empty)
        /\ UNCHANGED <<sopen, inheritable>>
     \/ /\ Put(t, Cloning(slot[t].sock, slot[t].from, "Fallback"))
        /\ UNCHANGED <<sopen, inheritable>>
  /\ UNCHANGED uwp

(* A variant of the fallback that drops the INVALID_SOCKET check.          *)
TryCloneSocketFallbackUnchecked(t) ==
  /\ slot[t].kind = "Cloning" /\ slot[t].stage = "Fallback"
  /\ \/ \E v \in Sockets :
          /\ OpenSocket(v, TRUE)
          /\ Put(t, Cloning(v, slot[t].from, "NoInherit"))
     \/ /\ Put(t, Cloning(INVALID_SOCKET, slot[t].from, "NoInherit"))
        /\ UNCHANGED <<sopen, inheritable>>
  /\ UNCHANGED uwp

(* The second WSASocketW, without the flag: a new inheritable socket,     *)
(* wrapped by OwnedSocket::from_raw_socket, or INVALID_SOCKET, returned as *)
(* the last Winsock error.                                                 *)
TryCloneSocketFallback(t) ==
  /\ slot[t].kind = "Cloning" /\ slot[t].stage = "Fallback"
  /\ \/ \E v \in Sockets :
          /\ OpenSocket(v, TRUE)
          /\ Put(t, Cloning(v, slot[t].from, "NoInherit"))
     \/ /\ Put(t, Empty)
        /\ UNCHANGED <<sopen, inheritable>>
  /\ UNCHANGED uwp

(* Variants of set_no_inherit that skip clearing the flag, and that forget *)
(* the new socket on error instead of dropping it.                         *)
TryCloneSetNoInheritSkipped(t) ==
  /\ ClonedSocketHeld(t)
  /\ Put(t, Hold("Owned", slot[t].sock))
  /\ UNCHANGED <<sopen, inheritable, uwp>>

TryCloneSetNoInheritLeaking(t) ==
  /\ ClonedSocketHeld(t)
  /\ LET v == slot[t].sock IN
       \/ /\ ~uwp
          /\ v \in sopen
          /\ inheritable' = inheritable \ {v}
          /\ Put(t, Hold("Owned", v))
          /\ UNCHANGED sopen
       \/ /\ Put(t, Empty)
          /\ UNCHANGED <<sopen, inheritable>>
  /\ UNCHANGED uwp

(* A variant that, when set_no_inherit fails, closes the new socket and   *)
(* retries the fallback WSASocketW instead of returning the error.         *)
TryCloneSetNoInheritRetrying(t) ==
  /\ ClonedSocketHeld(t)
  /\ LET v == slot[t].sock IN
       \/ /\ ~uwp
          /\ v \in sopen
          /\ inheritable' = inheritable \ {v}
          /\ Put(t, Hold("Owned", v))
          /\ UNCHANGED sopen
       \/ /\ CloseSocket(v)
          /\ Put(t, Cloning(v, slot[t].from, "Fallback"))
  /\ UNCHANGED uwp

(* socket.set_no_inherit()?: SetHandleInformation clears                   *)
(* HANDLE_FLAG_INHERIT and the clone is returned; on UWP set_no_inherit is *)
(* always Unsupported, and on any error the `?` drops the new OwnedSocket, *)
(* which closes it.                                                        *)
TryCloneSetNoInherit(t) ==
  /\ ClonedSocketHeld(t)
  /\ LET v == slot[t].sock IN
       \/ /\ ~uwp
          /\ v \in sopen
          /\ inheritable' = inheritable \ {v}
          /\ Put(t, Hold("Owned", v))
          /\ UNCHANGED sopen
       \/ /\ CloseSocket(v)
          /\ Put(t, Empty)
  /\ UNCHANGED uwp

(* Drop for OwnedSocket, reached by dropping an OwnedSocket, TcpStream,    *)
(* TcpListener or UdpSocket: closesocket, result ignored.                  *)
Drop(s) ==
  /\ slot[s].kind \in Owning \ {"Raw"}
  /\ Unborrowed(s)
  /\ CloseSocket(slot[s].sock)
  /\ Put(s, Empty)
  /\ UNCHANGED uwp

(* The end of a BorrowedSocket (Copy, no Drop).                            *)
EndBorrow(s) ==
  /\ slot[s].kind = "Borrowed"
  /\ Put(s, Empty)
  /\ UNCHANGED <<sopen, inheritable, uwp>>

(* IntoRawSocket for OwnedSocket: take the value and forget the owner.     *)
IntoRaw(s) ==
  /\ slot[s].kind = "Owned"
  /\ Unborrowed(s)
  /\ Rekind(s, "Raw")
  /\ UNCHANGED <<sopen, inheritable, uwp>>

(* FromRawSocket for OwnedSocket.                                          *)
FromRaw(s) ==
  /\ slot[s].kind = "Raw"
  /\ Rekind(s, "Owned")
  /\ UNCHANGED <<sopen, inheritable, uwp>>

(* AsSocket for OwnedSocket, TcpStream, TcpListener, UdpSocket (all by     *)
(* BorrowedSocket::borrow_raw, which asserts the value is not              *)
(* INVALID_SOCKET) and for BorrowedSocket (a copy under the same lifetime).*)
AsSocket(s, t) ==
  /\ slot[s].kind \in Borrowable
  /\ IsEmpty(t)
  /\ slot[s].sock # INVALID_SOCKET
  /\ Put(t, [kind |-> "Borrowed", sock |-> slot[s].sock, from |-> OwnerOf(s),
             stage |-> "Info"])
  /\ UNCHANGED <<sopen, inheritable, uwp>>

(* From<TcpStream>, From<TcpListener> and From<UdpSocket> for OwnedSocket, *)
(* by into_raw_socket then from_raw_socket.                                *)
IntoOwned(s) ==
  /\ slot[s].kind \in {"Tcp", "Listener", "Udp"}
  /\ Unborrowed(s)
  /\ Rekind(s, "Owned")
  /\ UNCHANGED <<sopen, inheritable, uwp>>

(* From<OwnedSocket> for TcpStream, TcpListener and UdpSocket.             *)
OwnedInto(s, k) ==
  /\ slot[s].kind = "Owned"
  /\ Unborrowed(s)
  /\ Rekind(s, k)
  /\ UNCHANGED <<sopen, inheritable, uwp>>

(* The rest of the standard library opening a socket for a TcpStream,      *)
(* TcpListener or UdpSocket, created with WSA_FLAG_NO_HANDLE_INHERIT.      *)
Bind(s) ==
  /\ IsEmpty(s)
  /\ \E v \in Sockets, k \in {"Tcp", "Listener", "Udp"} :
       /\ OpenSocket(v, FALSE)
       /\ Put(s, Hold(k, v))
  /\ UNCHANGED uwp

Next ==
  \/ \E s \in Slots :
       \/ TryCloneSocketWithFlag(s) \/ TryCloneSocketFallback(s)
       \/ TryCloneSetNoInherit(s)
       \/ Drop(s) \/ EndBorrow(s) \/ IntoRaw(s) \/ FromRaw(s)
       \/ IntoOwned(s) \/ Bind(s)
       \/ \E k \in {"Tcp", "Listener", "Udp"} : OwnedInto(s, k)
  \/ \E s, t \in Slots : TryCloneDuplicate(s, t) \/ AsSocket(s, t)

Spec == Init /\ [][Next]_vars

(* The steps of one try_clone_to_owned call after WSADuplicateSocketW.     *)
TryCloneStep(t) ==
  \/ TryCloneSocketWithFlag(t)
  \/ TryCloneSocketFallback(t)
  \/ TryCloneSetNoInherit(t)

(* The thread inside try_clone_to_owned runs straight-line code whose      *)
(* Winsock calls return: it is not starved while it can step.              *)
Fairness == \A t \in Slots : WF_vars(TryCloneStep(t))

FairSpec == Spec /\ Fairness

-----------------------------------------------------------------------------
TypeOK ==
  /\ sopen \subseteq Sockets
  /\ inheritable \subseteq sopen
  /\ slot \in [Slots -> Val]
  /\ uwp \in BOOLEAN

(* The slots responsible for closing socket x: an owning value, or a clone *)
(* in progress that holds the socket of its second WSASocketW.             *)
Holders(x) ==
  {s \in Slots : (slot[s].kind \in Owning \/ ClonedSocketHeld(s)) /\ slot[s].sock = x}

(* Exactly-once closesocket, through the fallback and error paths of       *)
(* try_clone_to_owned included: a socket is open exactly when one slot is  *)
(* responsible for closing it.                                             *)
ExclusiveOwnership ==
  \A x \in Sockets :
    /\ x \in sopen <=> Holders(x) # {}
    /\ \A s1, s2 \in Holders(x) : s1 = s2

(* No BorrowedSocket outlives its socket.                                  *)
NoDanglingBorrow ==
  \A t \in Slots :
    (slot[t].kind = "Borrowed" /\ slot[t].sock \in Sockets) => slot[t].sock \in sopen

(* Strengthening used by the proofs: a borrow points at the owner it was  *)
(* taken from, which still holds the same socket as an OwnedSocket, stream, *)
(* listener or UDP socket.                                                 *)
BorrowTracksOwner ==
  \A t \in Slots :
    slot[t].kind = "Borrowed" =>
      /\ slot[t].from \in Slots
      /\ slot[slot[t].from].kind \in Borrowable \ {"Borrowed"}
      /\ slot[slot[t].from].sock = slot[t].sock

(* A socket a child process would inherit exists only inside a running    *)
(* try_clone_to_owned, between the second WSASocketW and set_no_inherit:   *)
(* every socket the program can use (a returned clone included) has        *)
(* HANDLE_FLAG_INHERIT clear, on the fallback path and on UWP too.         *)
InheritableOnlyInClone ==
  \A x \in inheritable : \E t \in Slots : ClonedSocketHeld(t) /\ slot[t].sock = x

(* The layout of OwnedSocket and BorrowedSocket excludes INVALID_SOCKET:   *)
(* no socket value the program holds, a clone's new socket included, is   *)
(* INVALID_SOCKET.                                                         *)
NoInvalidSocket ==
  \A s \in Slots :
    (slot[s].kind \in Owning \cup {"Borrowed"} \/ ClonedSocketHeld(s))
      => slot[s].sock # INVALID_SOCKET

(* Every try_clone_to_owned call that has duplicated the protocol info    *)
(* returns: with a new OwnedSocket or with an error, after at most one     *)
(* fallback WSASocketW without WSA_FLAG_NO_HANDLE_INHERIT, on UWP as on    *)
(* desktop: the code has no loop, so a thread that keeps running returns. *)
CloneCompletes ==
  \A t \in Slots : (slot[t].kind = "Cloning") ~> (slot[t].kind # "Cloning")
-----------------------------------------------------------------------------
(* The refinement mapping to Ownership: the live values are the open      *)
(* sockets, and the owners of one are the slots responsible for closing   *)
(* it, a clone holding the socket of its second WSASocketW included.      *)
AbsHolders == [x \in Sockets |-> Holders(x)]

Abs == INSTANCE Ownership WITH
  Values <- Sockets, Owners <- Slots, live <- sopen, holders <- AbsHolders

(* Every step of the socket wrappers is a step of Ownership: a socket is   *)
(* handed to one slot only while it is not open (both WSASocketW calls of  *)
(* try_clone_to_owned, Bind) and closed only by the slot responsible for   *)
(* it (Drop, the error path of set_no_inherit); set_no_inherit's success,  *)
(* moves and borrows change no ownership.                                  *)
AbsSpec == Abs!Spec
=============================================================================
