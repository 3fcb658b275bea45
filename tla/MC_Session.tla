----------------------------- MODULE MC_Session -----------------------------
(* Instances of Session for TLC.                                           *)
EXTENDS Session, TLC

\* AudioServer owns two sockets, Clipboard one.
BinaryPair     == <<"audio", "audio">>
BinaryOne      == <<"clipboard">>

PidSymmetry == Permutations(Pid)
=============================================================================
