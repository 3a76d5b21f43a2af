----------------------------- MODULE FixParser -----------------------------
(***************************************************************************)
(* The FIX parser of pkg/fix/parser.go. A message is a sequence of tokens:  *)
(* "=", SOH, numerals and other text; the bytes within a token do not       *)
(* matter. Positions count from 1 and a field's end is the position after   *)
(* its value.                                                               *)
(***************************************************************************)
EXTENDS Integers, Sequences

SOH == "|"

\* The texts that strconv.Atoi accepts; of the numbers only the tags matter.
SeqNums == <<"1", "2", "3", "4", "5", "6", "7", "8", "9">>
Numerals ==
    {"0", "10", "11", "34", "35", "37", "49", "52", "56", "98"} \cup
        {SeqNums[n] : n \in DOMAIN SeqNums}

\* strconv.Atoi(string(data[idx:eqIdx])) succeeds.
IsTag(text) == text # <<>> /\ \A i \in DOMAIN text : text[i] \in Numerals

\* The least and the greatest of a set of positions.
First(S) == CHOOSE i \in S : \A j \in S : i <= j
Last(S) == CHOOSE i \in S : \A j \in S : i >= j

\* bytes.IndexByte(data[from:], b), or 0.
IndexByte(data, from, b) ==
    LET hits == {i \in from .. Len(data) : data[i] = b}
    IN  IF hits = {} THEN 0 ELSE First(hits)

\* Mutant: a value that is not terminated is cut by one.
Boundary_OneShort(data, eq) ==
    LET soh == IndexByte(data, eq, SOH) IN IF soh = 0 THEN Len(data) ELSE soh

\* The end of the value: its SOH, or the end of the data.
Boundary(data, eq) ==
    LET soh == IndexByte(data, eq, SOH) IN IF soh = 0 THEN Len(data) + 1 ELSE soh

Invalid == [ok |-> FALSE, tags |-> <<>>]

\* A turn of Parse's loop at idx; rest has the outcomes of the later turns.
ParseFrom(data, rest, idx) ==
    LET eq == IndexByte(data, idx, "=")
        end == Boundary(data, eq)
        tag == SubSeq(data, idx, eq - 1)
        more == rest[end + 1]
    IN  IF idx > Len(data) \/ eq = 0 THEN [ok |-> TRUE, tags |-> <<>>]
        ELSE IF ~IsTag(tag) \/ ~more.ok THEN Invalid
        ELSE [ok |-> TRUE,
              tags |-> <<[tag |-> tag, start |-> eq + 1, end |-> end]>> \o more.tags]

\* Message.Parse: the tags in order with the positions of their values.
Parse(data) ==
    LET loop[idx \in 1 .. Len(data) + 2] == ParseFrom(data, loop, idx) IN loop[1]

\* Mutant: the last field with the tag counts.
Chosen_Last(S) == Last(S)

\* GetField's loop returns at the first field with the tag.
Chosen(S) == First(S)

\* Message.GetString: <<TRUE, value>>, or <<FALSE, <<>>>> if there is no such tag.
GetString(data, tag) ==
    LET tags == Parse(data).tags
        hits == {i \in DOMAIN tags : tags[i].tag = <<tag>>}
        hit == tags[Chosen(hits)]
    IN  IF hits = {} THEN <<FALSE, <<>>>> ELSE <<TRUE, SubSeq(data, hit.start, hit.end - 1)>>

-----------------------------------------------------------------------------
\* The grammar: fields are separated by SOH; one with a "=" is a tag and, after
\* the first "=", a value.
Begins(data) == {1} \cup {i + 1 : i \in {j \in 1 .. Len(data) : data[j] = SOH}}

\* The field that begins at b has its "=" at q, a number for its tag, and ends
\* before e.
IsField(data, b, q, e) ==
    /\ q \in b .. Len(data) /\ data[q] = "="
    /\ \A i \in b .. q - 1 : data[i] # "="
    /\ IsTag(SubSeq(data, b, q - 1))
    /\ e \in q .. Len(data) + 1 /\ (e <= Len(data) => data[e] = SOH)
    /\ \A i \in b .. e - 1 : data[i] # SOH

\* The fields from idx on that are not ignored: all up to the last "=".
Relevant(data, idx) ==
    {b \in Begins(data) : b >= idx /\ \E i \in b .. Len(data) : data[i] = "="}

\* m holds the fields from idx on, in their order, if all of them are well-formed,
\* and is an error otherwise.
Holds(data, idx, m) ==
    IF \A b \in Relevant(data, idx) : \E q, e \in b .. Len(data) + 1 : IsField(data, b, q, e)
    THEN /\ m.ok
         /\ \A k \in 1 .. Len(m.tags) : \E b \in Relevant(data, idx) :
                /\ IsField(data, b, m.tags[k].start - 1, m.tags[k].end)
                /\ m.tags[k].tag = SubSeq(data, b, m.tags[k].start - 2)
         /\ \A b \in Relevant(data, idx) : \E k \in 1 .. Len(m.tags) :
                IsField(data, b, m.tags[k].start - 1, m.tags[k].end)
         /\ \A j, k \in 1 .. Len(m.tags) : j < k => m.tags[j].end < m.tags[k].start
    ELSE ~m.ok
=============================================================================
