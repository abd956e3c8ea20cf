------------------------------ MODULE EventParser ------------------------------
(***************************************************************************)
(* krabs::parser: the lazy walk over the data of one event.                *)
(*                                                                         *)
(* An event has `props', the property descriptions of its schema in event  *)
(* order, and `data', its cells (0 is the null character).  A description  *)
(* has a name, the type `in' (fixed, pointer, string, sid, wbemsid), the   *)
(* length of the schema, 0 when it is not there, and `tdh', what TDH says  *)
(* when it is asked for the size, 0 when it cannot tell.  `narrow' events  *)
(* come from 32-bit code.  An event with properties has some data.         *)
(*                                                                         *)
(* A parser has the place in the data it has walked to (pBufferIndex_),    *)
(* the places of the properties it passed (propertyCache_, whose length is *)
(* lastPropertyIndex_) and the index a name is looked for first            *)
(* (nextHint_).  Indices count from 0, as the code's.                      *)
(***************************************************************************)
EXTENDS Naturals, Sequences, SequencesExt

PointerCells == 2        \* the size of a pointer in an event of 64-bit code
HalfPointerCells == 1    \* and of 32-bit code

PointerSize(event) == IF event.narrow THEN HalfPointerCells ELSE PointerCells

\* What precedes the SID in a WBEMSID: twice a pointer.
TokenUserSize(event) == 2 * PointerSize(event)

NewParser == [at |-> 0, hint |-> 0, cache |-> <<>>]

PropertyCount(event) == Len(event.props)
Names(event) == {event.props[i].name : i \in DOMAIN event.props}

\* Mutant: strings are taken to end with the data.
HeuristicSizeToEnd(event, at) == Len(event.data) - at

\* A string runs to its null character, which counts, or to the end of the data.
HeuristicSize(event, at) ==
    LET nulls == {i \in DOMAIN event.data : i > at /\ event.data[i] = 0}
    IN  (IF nulls = {} THEN Len(event.data) ELSE Min(nulls)) - at

GetPropertySize(event, index, at) ==
    LET prop == event.props[index + 1] IN
    IF prop.length > 0 THEN IF prop.in = "pointer" THEN PointerSize(event) ELSE prop.length
    ELSE IF prop.in = "string" /\ HeuristicSize(event, at) > 0 THEN HeuristicSize(event, at)
    ELSE prop.tdh

Named(event, name) ==
    {i \in 0..(PropertyCount(event) - 1) : event.props[i + 1].name = name}

\* Mutant: the search does not go round to the properties before the hint.
IndexOfForward(event, name, hint) ==
    LET later == {i \in Named(event, name) : i >= hint}
    IN  IF later = {} THEN PropertyCount(event) ELSE Min(later)

\* The index of the first property of this name, counted from the hint and
\* round; the number of properties when there is none.
IndexOf(event, name, hint) ==
    LET named == Named(event, name)
        later == {i \in named : i >= hint}
    IN  IF named = {} THEN PropertyCount(event)
        ELSE IF later = {} THEN Min(named) ELSE Min(later)

CacheProperty(event, p, length) ==
    [at |-> p.at + length, hint |-> p.hint,
     cache |-> Append(p.cache, [at |-> p.at, length |-> length])]

\* One property further, unless it would end behind the data: the code then
\* throws and a later call finds the parser where it was.
Advance(event, p) ==
    LET length == GetPropertySize(event, Len(p.cache), p.at)
    IN  IF p.at + length > Len(event.data) THEN p ELSE CacheProperty(event, p, length)

\* The walk goes on until the property of this index is known.
WalkTo(event, p, index) ==
    LET walk[n \in 0..(index + 1)] ==
            IF n <= Len(p.cache) THEN p ELSE Advance(event, walk[n - 1])
    IN  walk[index + 1]

FindProperty(event, p, name) ==
    LET index == IndexOf(event, name, p.hint)
        hinted == [p EXCEPT !.hint = (index + 1) % PropertyCount(event)]
        walked == WalkTo(event, hinted, index)
    IN  IF index = PropertyCount(event) THEN [parser |-> p, status |-> "absent"]
        ELSE IF index >= Len(walked.cache) THEN [parser |-> walked, status |-> "past_end"]
        ELSE [parser |-> walked, status |-> "found",
              index |-> index, place |-> walked.cache[index + 1]]

\* The length of a string without the null characters at its end.
StringContentLength(cells) ==
    LET content == {i \in DOMAIN cells : cells[i] # 0}
    IN  IF content = {} THEN 0 ELSE Max(content)

Value(v) == [ok |-> TRUE, value |-> v]
Throws == [ok |-> FALSE, value |-> <<>>]

\* A plain type (an integer, say) takes only a property of its size.
ParseSized(cells, size) == IF Len(cells) = size THEN Value(cells) ELSE Throws

ParseString(cells) == Value(SubSeq(cells, 1, StringContentLength(cells)))

ParseBinary(cells) == Value(cells)

ParseSid(event, in, cells) ==
    CASE in = "sid" -> Value(cells)
      [] in = "wbemsid" /\ Len(cells) > TokenUserSize(event) ->
            Value(SubSeq(cells, TokenUserSize(event) + 1, Len(cells)))
      [] OTHER -> Throws

PointerFromBytes(cells) ==
    IF Len(cells) \in {PointerCells, HalfPointerCells} THEN Value(cells) ELSE Throws

\* What parse<T> makes of a property: a value, or an exception.
ParseAs(event, type, in, cells) ==
    CASE type.kind = "sized"   -> ParseSized(cells, type.size)
      [] type.kind = "string"  -> ParseString(cells)
      [] type.kind = "binary"  -> ParseBinary(cells)
      [] type.kind = "sid"     -> ParseSid(event, in, cells)
      [] type.kind = "pointer" -> PointerFromBytes(cells)

\* try_parse, once the property has been looked for.
ParseFound(event, found, type) ==
    LET cells == SubSeq(event.data, found.place.at + 1, found.place.at + found.place.length)
        parsed == ParseAs(event, type, event.props[found.index + 1].in, cells)
    IN  IF found.status # "found"
        THEN [parser |-> found.parser, ok |-> FALSE, value |-> <<>>]
        ELSE [parser |-> found.parser, ok |-> parsed.ok, value |-> parsed.value]

TryParse(event, p, name, type) == ParseFound(event, FindProperty(event, p, name), type)

\* parser::view_of with the adapter of a terminated string, which looks at no type.
ViewOf(event, p, name) ==
    LET found == FindProperty(event, p, name)
    IN  IF found.status # "found" THEN Throws
        ELSE ParseString(SubSeq(event.data, found.place.at + 1,
                                found.place.at + found.place.length))

\* Another attempt after one that failed.
OrElse(event, r, name, type) == IF r.ok THEN r ELSE TryParse(event, r.parser, name, type)

TryParsePointer(event, p, name) ==
    LET raw == TryParse(event, p, name, [kind |-> "pointer", size |-> 0])
        wide == OrElse(event, raw, name, [kind |-> "sized", size |-> PointerCells])
    IN  OrElse(event, wide, name, [kind |-> "sized", size |-> HalfPointerCells])

TryParseOperationStatus(event, p) ==
    OrElse(event, TryParse(event, p, "Status", [kind |-> "sized", size |-> 1]),
           "NtStatus", [kind |-> "sized", size |-> 1])

\* Where each property that was written ends.
Ends(event) ==
    LET end[i \in 0..Len(event.written)] ==
            IF i = 0 THEN 0 ELSE end[i - 1] + Len(event.written[i])
    IN  end

LoggedWhole(event) ==
    LET end == Ends(event)
    IN  /\ Len(event.data) = end[Len(event.written)]
        /\ \A i \in DOMAIN event.written :
              SubSeq(event.data, end[i - 1] + 1, end[i]) = event.written[i]

\* What is written is what the description says: so many cells, or a string with
\* its null at the end, which the last property may leave out.
Fits(event) ==
    \A i \in DOMAIN event.props :
        LET prop == event.props[i]
            cells == event.written[i]
            ended == cells # <<>> /\ \A k \in DOMAIN cells : cells[k] = 0 <=> k = Len(cells)
            open == i = PropertyCount(event) /\ \A k \in DOMAIN cells : cells[k] # 0
        IN  IF prop.length > 0
            THEN Len(cells) = IF prop.in = "pointer" THEN PointerSize(event) ELSE prop.length
            ELSE IF prop.in = "string" THEN ended \/ (open /\ (cells = <<>> => prop.tdh = 0))
            ELSE Len(cells) = prop.tdh

\* Whether the assertion in front of the walk would stop a debug build: the
\* data are used up and more than one property is still to come.
Exhausted(event, p) ==
    /\ p.at = Len(event.data)
    /\ PropertyCount(event) - Len(p.cache) > 1
    /\ Len(p.cache) < PropertyCount(event)
=============================================================================
