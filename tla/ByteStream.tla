----------------------------- MODULE ByteStream -----------------------------
(***************************************************************************)
(* What a buffered writer promises, with no buffer in sight: it accepts    *)
(* bytes, the destination has received an initial part of what has been    *)
(* accepted, and neither history is ever rewritten.  Pointing the writer   *)
(* at another destination starts both histories afresh.                    *)
(***************************************************************************)
EXTENDS Sequences, SequencesExt

VARIABLES accepted,   \* every byte taken from the caller, in order
          sent        \* every byte the destination has received

svars == <<accepted, sent>>

Init ==
  /\ accepted = <<>>
  /\ sent = <<>>

(* Bytes are accepted, or delivered, or both (a body written directly).    *)
Extend ==
  /\ IsPrefix(accepted, accepted')
  /\ IsPrefix(sent, sent')
  /\ IsPrefix(sent', accepted')

Restart ==
  /\ accepted' = <<>>
  /\ sent' = <<>>

Next == Extend \/ Restart

Spec == Init /\ [][Next]_svars
=============================================================================
