------------------------------ MODULE MCMerging ------------------------------
(* Instances of Merging for TLC: texts of three and four characters.       *)
EXTENDS Merging

\* Every pair a text can hold.
MCChar == (0..MaxHistory + 1) \X (1..BaseLength + MaxText)

=============================================================================
