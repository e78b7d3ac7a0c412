----------------------------- MODULE MCProducer -----------------------------
(***************************************************************************)
(* Small instances of Producer for TLC.                                    *)
(***************************************************************************)
EXTENDS Producer

\* A catalog to which a tower and a bundle were added after the database was created.
\* generate uses the first of each; the neighbours of its events name the others too.
TwoTowers == [T |-> {"LTE"}, New |-> {"LTE"}]
TwoBundles == [DATA_1GB |-> 99000, NEW_2GB |-> 99000]
=============================================================================
