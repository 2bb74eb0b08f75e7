------------------------------- MODULE Ingest -------------------------------
(***************************************************************************)
(* What an ingest handler makes of a request body: DecodeRequest of          *)
(* src/internal/updater/decoder.go and the aggregation of ingest in http.go.  *)
(*                                                                         *)
(* A body is a sequence of JSON tokens and line ends.  Spaces and carriage   *)
(* returns are left out, but for those that are all of an unterminated last  *)
(* line: they, and whatever is not JSON or not UTF-8, are a token Junk.  A    *)
(* member whose value is empty or not a string has the value "".             *)
(* All rejections look alike to the client, so their reasons are left out.   *)
(***************************************************************************)
EXTENDS Naturals, Sequences, FiniteSets

CONSTANT MaxRecords   \* DecodeLimits.MaxRecords

ASSUME MaxRecordsAssumption == MaxRecords \in Nat \ {0}

Token(kind) == [kind |-> kind, name |-> "", value |-> ""]
Open == Token("{")
Close == Token("}")
NewLine == Token("newline")
Junk == Token("junk")
Member(name, value) == [kind |-> "member", name |-> name, value |-> value]

(* The bodies that may arrive *)
Bodies ==
  LET tokens == [kind : {"{", "}", "newline", "junk", "member"}, name : STRING, value : STRING]
  IN  [media : STRING, fits : BOOLEAN, tokens : Seq(tokens), hour : Nat]

(* decodeObject: a JSON object with exactly the two identities, each once,   *)
(* and nothing behind it.                                                   *)
IsObject(text) ==
  /\ Len(text) = 4 /\ text[1] = Open /\ text[4] = Close
  /\ {text[2].name, text[3].name} = {"bucket", "object"}
  /\ \A i \in {2, 3} : text[i].kind = "member" /\ text[i].value # ""

(* The record of such an object *)
Access(text) ==
  LET ValueOf(name) == (CHOOSE i \in {2, 3} : text[i].name = name)
  IN  <<text[ValueOf("bucket")].value, text[ValueOf("object")].value>>

(* The stretches between line ends, as the positions around each *)
Lines(tokens) ==
  LET ends == {0, Len(tokens) + 1} \cup {i \in DOMAIN tokens : tokens[i] = NewLine}
  IN  {p \in ends \X ends : p[1] < p[2] /\ \A e \in ends : e <= p[1] \/ p[2] <= e}

(* The empty stretch behind the last line end *)
Unterminated(tokens) == {<<Len(tokens), Len(tokens) + 1>>}

(* The positions between two that hold no line end; the n-th of them         *)
Marks(body, p) == {i \in p[1] + 1 .. p[2] - 1 : body.tokens[i] # NewLine}

Nth(marks, n) == CHOOSE i \in marks : Cardinality({j \in marks : j <= i}) = n

Text(body, p) ==
  [n \in 1..Cardinality(Marks(body, p)) |-> body.tokens[Nth(Marks(body, p), n)]]

(* What must be an object each: the whole body, or each line. *)
Units(body) ==
  IF body.media = "json" THEN {<<0, Len(body.tokens) + 1>>}
  ELSE {p \in Lines(body.tokens) :
          p \in Unterminated(body.tokens) => Text(body, p) # <<>>}

(* DecodeRequest accepts the body: all of it or nothing. *)
Decodes(body) ==
  /\ body.media \in {"json", "ndjson"}
  /\ body.fits /\ body.tokens # <<>>
  /\ body.media = "ndjson" => Cardinality(Units(body)) <= MaxRecords
  /\ \A p \in Units(body) : IsObject(Text(body, p))

(* The bug of a counter that does not know its hour. *)
AccessKeyWithoutHour(access, hour) == <<access[1], access[2], 1>>

(* The counter of a record, by the hour in which its request arrived *)
AccessKey(access, hour) == <<access[1], access[2], hour>>

KeyOf(body, p) == AccessKey(Access(Text(body, p)), body.hour)

(* The bug of losing the second access to a key. *)
DeltaOfOne(body, k) == 1

(* increment.Delta++ for each record of the key *)
Delta(body, k) == Cardinality({p \in Units(body) : KeyOf(body, p) = k})

NoRecords == [events |-> 0, increments |-> <<>>]

(* The BatchRequest that ingest submits; none for a rejected body *)
IngestRequest(body) ==
  IF Decodes(body)
  THEN [events |-> Cardinality(Units(body)),
        increments |-> [k \in {KeyOf(body, p) : p \in Units(body)} |-> Delta(body, k)]]
  ELSE NoRecords
=============================================================================
