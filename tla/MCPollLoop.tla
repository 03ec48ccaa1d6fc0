----------------------------- MODULE MCPollLoop -----------------------------
(***************************************************************************)
(* The instance of PollLoop for TLC.                                       *)
(***************************************************************************)
EXTENDS PollLoop, TLC

CONSTANTS fd1, fd2, p1, p2, p3

AllFlags == {"POLLIN", "POLLOUT", "POLLERR"}

(* Two descriptors; fd1 is closed and opened again for another object: it  *)
(* may be registered for p1 or, later, for p3.                             *)
TwoFds == {fd1, fd2}
TwoFdsOwners == (fd1 :> {p1, p3}) @@ (fd2 :> {p2})

MCPtrs == {p1, p2, p3}

=============================================================================
