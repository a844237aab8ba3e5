------------------------------ MODULE MCClaimer ------------------------------
(***************************************************************************)
(* TLC instances of Claimer.                                               *)
(***************************************************************************)
EXTENDS Claimer, TLC

\* A success, a diagnostic case and a session problem; the executor may answer
\* with a transient failure in every instance.
RacingResults == {"Success", "UnknownResponse", "SessionExpired"}

\* A success and the terminal failure that would overwrite its status.
TerminalResults == {"Success", "Exhausted"}

Healthy == {"Healthy"}

Symmetry == Permutations(Vouchers)

=============================================================================
