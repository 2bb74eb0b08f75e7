------------------------- MODULE MCUpdaterService -------------------------
(* With MaxRecords = 2, MaxEvents = 3 and MaxKeys = 2:                      *)
(*   r1 has two accesses to one object and r3 two in the next hour: neither  *)
(*     fills a batch and they do not fit into one;                          *)
(*   r2 has one access to the object in r1's hour, which fits next to either *)
(*     and fills the batch;                                                 *)
(*   r4 has a malformed line behind a good one.                             *)
EXTENDS UpdaterService, TLC

CONSTANTS r1, r2, r3, r4

B == Member("bucket", "b")
O == Member("object", "o")
Line == <<Open, B, O, Close>>
Enter == <<NewLine>>

Arriving(media, tokens, hour) ==
  [media |-> media, fits |-> TRUE, tokens |-> tokens, hour |-> hour]

MCBody ==
  r1 :> Arriving("ndjson", Line \o Enter \o Line \o Enter, 1)
  @@ r2 :> Arriving("json", <<Open, NewLine, O, B, Close>>, 1)
  @@ r3 :> Arriving("ndjson", Line \o Enter \o <<Open, O, B, Close>>, 2)
  @@ r4 :> Arriving("ndjson", Line \o Enter \o <<Open, B, Close>>, 1)

MCKeys == {<<"b", "o", 1>>, <<"b", "o", 2>>}

\* TLC computes Submitted once, but the definition that replaces Request again
\* and again; and it keeps the values of an explicit function.
Explicit(f) == f @@ <<>>
Submitted ==
  Explicit([r \in Requests |-> [IngestRequest(MCBody[r]) EXCEPT !.increments = Explicit(@)]])
MCRequest == Submitted

(* The decoder accepts exactly the bodies of the grammar: for every sequence *)
(* of up to five tokens, and for up to three lines of each kind.            *)
Units1 == {Line, <<Open, O, B, Close>>}
Malformed ==
  {<<>>, <<Junk>>, <<Open, Close>>, <<Open, B, Close>>, <<Open, B, B, Close>>, <<B, O>>,
   <<Open, B, O>>, Line \o Line, <<Open, B, O, B, Close>>, Line \o <<Junk>>,
   <<Open, Member("bucket", ""), O, Close>>, <<Open, B, Member("key", "o"), Close>>}
Sequences == UNION {[1..n -> {Open, Close, NewLine, B, O, Junk}] : n \in 0..5}

ASSUME DecoderIsStrict ==
  /\ \A tokens \in Sequences :
       /\ Decodes(Arriving("ndjson", tokens, 1))
            <=> tokens \in Units1 \cup {line \o Enter : line \in Units1}
       /\ Decodes(Arriving("json", tokens, 1))
            <=> SelectSeq(tokens, LAMBDA token : token # NewLine) \in Units1
  /\ \A line \in Units1 \cup Malformed, next \in Units1 \cup Malformed :
       /\ Decodes(Arriving("ndjson", line \o Enter \o next, 1))
            <=> line \in Units1 /\ next \in Units1 \cup {<<>>}
       /\ ~Decodes(Arriving("ndjson", Line \o Enter \o line \o Enter \o next \o Enter, 1))
=============================================================================
