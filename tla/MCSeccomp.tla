------------------------------ MODULE MCSeccomp -----------------------------
(* A small instance of the filters for TLC: the numbers are those of       *)
(* x86_64, the sizes are scaled down so that the limit is within reach.    *)
EXTENDS Seccomp

Read == 0
Write == 1
Ioctl == 16
Socket == 41
Clone == 56
Execve == 59
Mount == 165
Openat == 257
Clone3 == 435
CloseRange == 436

AllNr == {Read, Write, Ioctl, Socket, Clone, Execve, Mount, Openat, Clone3, CloseRange}
Default == <<Read, Write, Openat, CloseRange, Execve>>
NotifyFs == <<Openat>>
ChildCalls == <<Write, Read, CloseRange, Execve>>

Call(arch, nr, arg0, arg1) == [arch |-> arch, nr |-> nr, arg0 |-> arg0, arg1 |-> arg1]

\* Every number without arguments; namespace flags alone and among others;
\* netlink and raw sockets, with SOCK_NONBLOCK too; the ioctls; a foreign ABI.
SomeCalls ==
  {PlainCall(nr) : nr \in AllNr}
    \cup {Call(AUDIT_ARCH, Clone, flags, 0) : flags \in CloneNew \cup {17, 65536, 268435456 + 17}}
    \cup {Call(AUDIT_ARCH, Socket, domain, type) : domain \in {2, 16}, type \in {1, 3, 2051, 19}}
    \cup {Call(AUDIT_ARCH, Ioctl, 0, cmd) : cmd \in {TIOCSTI, TIOCSETD, TIOCLINUX, 21505}}
    \cup {Call(0, nr, 0, 0) : nr \in {Read, Openat, Clone3}}

\* Ascending and descending: every element is first, last and between.
Ascending(set) ==
  SelectSeq(<<Read, Write, Ioctl, Socket, Clone, Execve, Mount, Openat, Clone3, CloseRange>>,
            LAMBDA nr : nr \in set)
BothOrders == [set \in SUBSET AllNr |-> {Ascending(set), Reverse(Ascending(set))}]
=============================================================================
