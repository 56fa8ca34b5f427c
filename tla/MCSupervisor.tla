----------------------------- MODULE MCSupervisor ----------------------------
(* A small instance of the supervisor for TLC.                             *)
EXTENDS Supervisor

\* The default mappings of VirtualFs::new and one that add_mapping shadows.
Mappings ==
  << [virtual |-> <<"work">>,       real |-> <<"ws", "work">>],
     [virtual |-> <<"tmp">>,        real |-> <<"ws", "tmp">>],
     [virtual |-> <<"work", "sub">>, real |-> <<"data">>] >>

Call(nr, file, arg1, arg2, arg3) ==
  [nr |-> nr, path |-> file, arg1 |-> arg1, arg2 |-> arg2, arg3 |-> arg3]

NewFile == Call("openat", <<"work", "new">>, {}, {O_WRONLY, O_CREAT, O_EXCL, O_CLOEXEC}, {128, 256})
Pipe    == Call("open", <<"work", "fifo">>, {O_WRONLY}, {}, {})

\* An exclusive creation, the open of a FIFO, an open under two mappings, one of a
\* path with `..`, a creat (whose mode, 0644, has the bit of O_EXCL), and a call
\* that is no open on a path nothing maps.
SomeCalls ==
  { NewFile, Pipe,
    Call("open", <<"work", "sub", "f">>, {O_WRONLY, O_CLOEXEC}, {}, {}),
    Call("open", <<"work", "..", "tmp", "t">>, {}, {}, {}),
    Call("creat", <<"tmp", "t">>, {4, 32, 128, 256}, {}, {}),
    Call("newfstatat", <<"etc", "f">>, {}, {}, {}) }

Host == { <<"ws", "work", "sub", "f">>, <<"data", "f">>, <<"ws", "tmp", "t">>, <<"etc", "f">>,
          <<"ws", "work", "fifo">> }
Pipes == { <<"ws", "work", "fifo">> }
=============================================================================
