------------------------------ MODULE MCCollect ------------------------------
(***************************************************************************)
(* A small instance of Collect for TLC.  The folder has the kinds of names *)
(* parse() tells apart; the contents have a batch with an invalid          *)
(* message between valid ones, a batch that is just one byte too long for  *)
(* the buffer, one that just fits, and a text that is no batch.            *)
(***************************************************************************)
EXTENDS CollectProofs, TLC

\* strings.ToLower on the words that occur in the names below
MCToLower(s) == IF s \in {"DATA", "Data"} THEN "data" ELSE s

File(scores) ==
  [json |-> TRUE, lock |-> FALSE, dashes |-> <<"x">>, scores |-> scores]
Lock(dashes) ==
  [json |-> TRUE, lock |-> TRUE, dashes |-> dashes, scores |-> <<"lock">>]

insert == [dtype |-> TRUE, data |-> TRUE, action |-> "insert",
           source |-> TRUE, path |-> TRUE, time |-> TRUE]
add == [insert EXCEPT !.action = "add", !.source = FALSE]
noSource == [insert EXCEPT !.source = FALSE]

Mixed == [json |-> TRUE, size |-> 3, msgs |-> <<insert, noSource, add>>]
Pair == [json |-> TRUE, size |-> 2, msgs |-> <<add, insert>>]
TooLong == [json |-> TRUE, size |-> 4, msgs |-> <<insert>>]
NoBatch == [json |-> FALSE, size |-> 1, msgs |-> << >>]

MCMaxFileSize == 3

\* A data file, its type in capitals, with every kind of content, and the two
\* kinds of locks that concern it.
MCFiles == 1 .. 3
MCName ==
  (1 :> File(<<"DATA", "app", "17">>)) @@
  (2 :> Lock(<<"lock">>)) @@
  (3 :> Lock(<<"lock", "Data">>))
MCContents == {Mixed, Pair, TooLong, NoBatch}

=============================================================================
