---------------------------- MODULE MessageCodec ----------------------------
(***************************************************************************)
(* truefix-core's SOH codec: framing, tokenizing with length-prefixed data *)
(* fields, decoding flat and with repeating groups, regrouping, encoding.  *)
(* The wire is a sequence of symbols: SOH, '=', letters, and numerals, of  *)
(* which a whole decimal number is one.  A field map is a sequence of      *)
(* fields and groups; an Option is a sequence of at most one element.      *)
(***************************************************************************)
EXTENDS Integers, Sequences, SequencesExt

CONSTANTS
  CheckMod,                 \* 256; above every symbol, as 256 is above every byte
  MAX_BODY_LEN,
  MAX_GROUP_NESTING_DEPTH,
  FixVersions               \* values of the shape FIX.d.d or FIXT.d.d

SOH == 1
Eq == 2
Num(n) == n + 10
IsNum(s) == s >= 10

Ok(v) == [ok |-> v]
Err(why) == [err |-> why]
Failed(r) == "err" \in DOMAIN r

\* A value that is one decimal number.
Parses(value) == Len(value) = 1 /\ IsNum(value[1])
parse(value) == value[1] - 10

BEGIN_STRING == 8
BODY_LENGTH == 9
MSG_TYPE == 35
CHECK_SUM == 10

HeaderTags ==
  {8, 9, 35, 49, 56, 115, 128, 90, 91, 34, 50, 142, 57, 143, 116, 144, 129, 145, 43,
   97, 52, 122, 212, 213, 347, 369, 370, 627, 628, 629, 630, 1128, 1129, 1130, 1156, 1351,
   1352, 1353, 1354, 1355}
is_header(tag) == tag \in HeaderTags

is_trailer(tag) == tag \in {93, 89, 10}

LengthTags == {90, 95, 212, 348, 350, 352, 354, 356, 358, 360, 362, 364, 93, 445, 618, 621,
               1359, 1397, 1468}
data_field_for_length(tag) == IF tag = 93 THEN 89 ELSE tag + 1

-----------------------------------------------------------------------------
(* Fields, groups and messages. *)
Field(tag, value) == [tag |-> tag, value |-> value]
Group(tag, entries, declared) == [tag |-> tag, entries |-> entries, declared |-> declared]
IsGroup(m) == "entries" \in DOMAIN m

fields(map) == SelectSeq(map, LAMBDA m : ~IsGroup(m))
contains(map, tag) == \E i \in DOMAIN map : ~IsGroup(map[i]) /\ map[i].tag = tag
get(map, tag) == SelectSeq(fields(map), LAMBDA m : m.tag = tag)[1].value

\* The first field of the tag takes the new value, later ones go.
set(map, field) ==
  LET first == SelectInSeq(map, LAMBDA m : ~IsGroup(m) /\ m.tag = field.tag)
      Stale(i) == i # first /\ ~IsGroup(map[i]) /\ map[i].tag = field.tag
      kept == SelectSeq([i \in DOMAIN map |-> i], LAMBDA i : ~Stale(i))
  IN  IF first = 0 THEN Append(map, field)
      ELSE [n \in DOMAIN kept |-> IF kept[n] = first THEN field ELSE map[kept[n]]]

\* The header of a reply: each routing tag of the original goes to its opposite.
reverse_route(msg, original) ==
  FoldLeft(LAMBDA map, p : IF contains(original.header, p[1])
                           THEN set(map, Field(p[2], get(original.header, p[1]))) ELSE map,
           msg.header, <<<<115, 128>>, <<128, 115>>, <<116, 129>>, <<129, 116>>, <<144, 145>>,
                         <<145, 144>>>>)

-----------------------------------------------------------------------------
(* Encoding. *)
render_raw(tag, value) == <<Num(tag), Eq>> \o value \o <<SOH>>

group_count_to_emit(m) ==
  <<Num(IF m.declared = <<>> THEN Len(m.entries) ELSE m.declared[1])>>

RECURSIVE render_members(_, _)
render_members(map, skip) ==
  LET Render(m) ==
        IF IsGroup(m)
        THEN render_raw(m.tag, group_count_to_emit(m)) \o
             FlattenSeq([i \in DOMAIN m.entries |-> render_members(m.entries[i], {})])
        ELSE IF m.tag \in skip THEN <<>> ELSE render_raw(m.tag, m.value)
  IN  FlattenSeq([i \in DOMAIN map |-> Render(map[i])])

\* Listed tags first, each once in the order of the list; then the others.
render_members_ordered(map, order) ==
  LET listed == {order[i] : i \in DOMAIN order}
      FirstAt(i) == \A j \in 1..(i - 1) : order[j] # order[i]
      wanted == SelectSeq([i \in DOMAIN order |-> i], FirstAt)
      Of(tag) == SelectSeq(map, LAMBDA m : m.tag = tag)
  IN  FlattenSeq([n \in DOMAIN wanted |-> render_members(Of(order[wanted[n]]), {})]) \o
      render_members(SelectSeq(map, LAMBDA m : m.tag \notin listed), {})

Sum(symbols) ==
  LET upto[i \in 0..Len(symbols)] == IF i = 0 THEN 0 ELSE upto[i - 1] + symbols[i]
  IN  upto[Len(symbols)]
Value(map, tag) == IF contains(map, tag) THEN get(map, tag) ELSE <<>>

\* order is <<>> for encode, <<the field order>> for encode_with_order.
encode_with_order(msg, order) ==
  LET middle == render_raw(MSG_TYPE, Value(msg.header, MSG_TYPE)) \o
                render_members(msg.header, {BEGIN_STRING, BODY_LENGTH, MSG_TYPE}) \o
                (IF order = <<>> THEN render_members(msg.body, {})
                 ELSE render_members_ordered(msg.body, order[1])) \o
                render_members(msg.trailer, {CHECK_SUM})
      out == render_raw(BEGIN_STRING, Value(msg.header, BEGIN_STRING)) \o
             render_raw(BODY_LENGTH, <<Num(Len(middle))>>) \o middle
  IN  out \o render_raw(CHECK_SUM, <<Num(Sum(out) % CheckMod)>>)

encode(msg) == encode_with_order(msg, <<>>)

-----------------------------------------------------------------------------
(* Tokenizing.  A token is a field with the place where it starts. *)

\* The place of the first s at or after pos, 0 if there is none.
IndexFrom(input, pos, s) ==
  LET at == {i \in pos..Len(input) : input[i] = s}
  IN  IF at = {} THEN 0 ELSE CHOOSE i \in at : \A j \in at : i <= j

\* Where a value beginning at `from' ends (its SOH), or an error.
ValueEnd(input, from, len) ==
  IF len = <<>>
  THEN LET e == IndexFrom(input, from, SOH) IN IF e = 0 THEN Err("GarbledField") ELSE Ok(e)
  ELSE LET e == from + len[1]
       IN  IF e > Len(input) + 1 THEN Err("Truncated")
           ELSE IF e = Len(input) + 1 \/ input[e] # SOH THEN Err("GarbledField") ELSE Ok(e)

\* A declared length governs its own data field and nothing else.
DataLength(pending, tag) ==
  IF pending = <<>> THEN Ok(<<>>)
  ELSE IF pending[1].tag = tag THEN Ok(<<pending[1].len>>) ELSE Err("GarbledField")

RECURSIVE TokensFrom(_, _, _, _)
TokensFrom(input, pos, pending, tokens) ==
  LET eq == IndexFrom(input, pos, Eq)
      name == SubSeq(input, pos, eq - 1)
      tag == parse(name)
      len == DataLength(pending, tag)
      end == ValueEnd(input, eq + 1, len.ok)
      value == SubSeq(input, eq + 1, end.ok - 1)
      next == IF tag \notin LengthTags THEN <<>>
              ELSE <<[tag |-> data_field_for_length(tag), len |-> parse(value)]>>
  IN  IF pos > Len(input) THEN Ok(tokens)
      ELSE IF eq = 0 THEN Err("GarbledField")
      ELSE IF ~Parses(name) THEN Err("InvalidTag")
      ELSE IF tag = 0 THEN Err("InvalidTag")
      ELSE IF Failed(len) THEN len
      ELSE IF Failed(end) THEN end
      ELSE IF tag \in LengthTags /\ ~Parses(value) THEN Err("GarbledField")
      ELSE TokensFrom(input, end.ok + 1, next,
                      Append(tokens, [tag |-> tag, value |-> value, start |-> pos]))

tokenize(input) == TokensFrom(input, 1, <<>>, <<>>)

\* BodyLength and CheckSum of a tokenized message.
EnvelopeOk(input, tokens) ==
  LET declared == parse(tokens[2].value)
      last == tokens[Len(tokens)]
      body_start == IF Len(tokens) > 2 THEN tokens[3].start ELSE last.start
  IN  IF ~Parses(last.value) \/ parse(last.value) >= CheckMod THEN Err("MissingChecksum")
      ELSE IF last.start < body_start THEN Err("InvalidBodyLength")
      ELSE IF last.start - body_start # declared THEN Err("BodyLengthMismatch")
      ELSE IF Sum(SubSeq(input, 1, last.start - 1)) % CheckMod # parse(last.value)
           THEN Err("ChecksumMismatch")
      ELSE Ok(tokens)

tokenize_validated(input) ==
  LET r == tokenize(input)
      tokens == r.ok
  IN  IF input = <<>> THEN Err("Empty")
      ELSE IF Failed(r) THEN r
      ELSE IF tokens[1].tag # BEGIN_STRING THEN Err("MissingBeginString")
      ELSE IF Len(tokens) < 2 THEN Err("InvalidBodyLength")
      ELSE IF tokens[2].tag # BODY_LENGTH \/ ~Parses(tokens[2].value)
           THEN Err("InvalidBodyLength")
      ELSE IF parse(tokens[2].value) > MAX_BODY_LEN THEN Err("BodyLengthTooLarge")
      ELSE IF \A i \in DOMAIN tokens : tokens[i].tag # MSG_TYPE THEN Err("MissingMsgType")
      ELSE IF tokens[Len(tokens)].tag # CHECK_SUM THEN Err("MissingChecksum")
      ELSE EnvelopeOk(input, tokens)

section_of(tag) == IF is_trailer(tag) THEN 2 ELSE IF is_header(tag) THEN 0 ELSE 1

fields_out_of_order(tokens) ==
  LET section == [i \in DOMAIN tokens |-> section_of(tokens[i].tag)]
  IN  \/ \E i \in 2..Len(tokens) : section[i] < section[i - 1]
      \/ Len(tokens) > 2 /\ tokens[3].tag # MSG_TYPE

FieldsOf(tokens, section) ==
  LET of == SelectSeq(tokens, LAMBDA k : section_of(k.tag) = section)
  IN  [i \in DOMAIN of |-> Field(of[i].tag, of[i].value)]

decode(input) ==
  LET r == tokenize_validated(input)
  IN  IF Failed(r) THEN r
      ELSE Ok([header |-> FieldsOf(r.ok, 0), body |-> FieldsOf(r.ok, 1),
               trailer |-> FieldsOf(r.ok, 2), out_of_order |-> fields_out_of_order(r.ok)])

-----------------------------------------------------------------------------
(* Repeating groups.  A spec maps a count tag to its delimiter and members. *)

\* The count the wire declares, if it is a number.
Declared(token) == IF Parses(token.value) THEN <<parse(token.value)>> ELSE <<>>

RECURSIVE build_group(_, _, _, _)
RECURSIVE EntryFrom(_, _, _, _, _)
RECURSIVE EntriesFrom(_, _, _, _, _)

\* One entry, from after its delimiter to the next one or a tag that is no member.
EntryFrom(tokens, pos, spec, entry, at) ==
  LET g == spec[at.tag]
      tag == tokens[pos].tag
      sub == build_group(tokens, pos, spec, at.depth + 1)
  IN  IF pos > Len(tokens) THEN Ok([of |-> entry, pos |-> pos])
      ELSE IF tag = g.delimiter \/ \A i \in DOMAIN g.members : g.members[i] # tag
           THEN Ok([of |-> entry, pos |-> pos])
      ELSE IF tag \notin DOMAIN spec
           THEN EntryFrom(tokens, pos + 1, spec,
                          Append(entry, Field(tag, tokens[pos].value)), at)
      ELSE IF Failed(sub) THEN sub
      ELSE EntryFrom(tokens, sub.ok.pos, spec, Append(entry, sub.ok.of), at)

EntriesFrom(tokens, pos, spec, entries, at) ==
  LET delimiter == spec[at.tag].delimiter
      entry == EntryFrom(tokens, pos + 1, spec, <<Field(delimiter, tokens[pos].value)>>, at)
  IN  IF pos > Len(tokens) THEN Ok([of |-> entries, pos |-> pos])
      ELSE IF tokens[pos].tag # delimiter THEN Ok([of |-> entries, pos |-> pos])
      ELSE IF Failed(entry) THEN entry
      ELSE EntriesFrom(tokens, entry.ok.pos, spec, Append(entries, entry.ok.of), at)

\* The group whose count is at pos.
build_group(tokens, pos, spec, depth) ==
  LET tag == tokens[pos].tag
      r == EntriesFrom(tokens, pos + 1, spec, <<>>, [tag |-> tag, depth |-> depth])
  IN  IF depth >= MAX_GROUP_NESTING_DEPTH THEN Err("GroupNestingTooDeep")
      ELSE IF Failed(r) THEN r
      ELSE Ok([of |-> Group(tag, r.ok.of, Declared(tokens[pos])), pos |-> r.ok.pos])

RECURSIVE SectionFrom(_, _, _, _)
SectionFrom(tokens, pos, spec, map) ==
  LET group == build_group(tokens, pos, spec, 0)
  IN  IF pos > Len(tokens) THEN Ok(map)
      ELSE IF tokens[pos].tag \notin DOMAIN spec
           THEN SectionFrom(tokens, pos + 1, spec,
                            Append(map, Field(tokens[pos].tag, tokens[pos].value)))
      ELSE IF Failed(group) THEN group
      ELSE SectionFrom(tokens, group.ok.pos, spec, Append(map, group.ok.of))

decode_section_with_groups(tokens, spec) == SectionFrom(tokens, 1, spec, <<>>)

decode_with_groups(input, spec) ==
  LET r == tokenize_validated(input)
      Section(s) == decode_section_with_groups(FieldsOf(r.ok, s), spec)
      bad == SelectSeq(<<0, 1, 2>>, LAMBDA s : Failed(Section(s)))
  IN  IF Failed(r) THEN r
      ELSE IF bad # <<>> THEN Section(bad[1])
      ELSE Ok([header |-> Section(0).ok, body |-> Section(1).ok, trailer |-> Section(2).ok,
               out_of_order |-> fields_out_of_order(r.ok)])

\* The count a flattened group gets back: as in the encoder.
RECURSIVE flatten_to_tokens(_)
flatten_to_tokens(map) ==
  LET Flat(m) == IF IsGroup(m)
                 THEN <<Field(m.tag, group_count_to_emit(m))>> \o
                      FlattenSeq([i \in DOMAIN m.entries |-> flatten_to_tokens(m.entries[i])])
                 ELSE <<m>>
  IN  FlattenSeq([i \in DOMAIN map |-> Flat(map[i])])

restructure_groups(map, spec) == decode_section_with_groups(flatten_to_tokens(map), spec)

-----------------------------------------------------------------------------
(* Framing. *)
TrailerLen == 4   \* 10=XXX<SOH>: 7 bytes

\* Faulty variant: the place of the CheckSum is not looked at (what BUG-46 fixed).
TrailerTrusted(buf, total) == TRUE

\* 10= and the SOH stand where BodyLength says.
TrailerInPlace(buf, total) ==
  /\ SubSeq(buf, total - 3, total - 2) = <<Num(CHECK_SUM), Eq>>
  /\ buf[total] = SOH

\* Ok(<<length>>) for a complete message, Ok(<<>>) while more is needed.
frame_length(buf) ==
  LET soh1 == IndexFrom(buf, 1, SOH)
      soh2 == IndexFrom(buf, soh1 + 1, SOH)
      length == SubSeq(buf, soh1 + 3, soh2 - 1)
      total == soh2 + parse(length) + TrailerLen
  IN  IF soh1 = 0 THEN Ok(<<>>)
      ELSE IF SubSeq(buf, 1, 2) # <<Num(BEGIN_STRING), Eq>> THEN Err("MissingBeginString")
      ELSE IF SubSeq(buf, 3, soh1 - 1) \notin FixVersions THEN Err("MissingBeginString")
      ELSE IF soh2 = 0 THEN Ok(<<>>)
      ELSE IF SubSeq(buf, soh1 + 1, soh1 + 2) # <<Num(BODY_LENGTH), Eq>> THEN Err("InvalidBodyLength")
      ELSE IF ~Parses(length) THEN Err("InvalidBodyLength")
      ELSE IF parse(length) = 0 THEN Err("ZeroBodyLength")
      ELSE IF parse(length) > MAX_BODY_LEN THEN Err("BodyLengthTooLarge")
      ELSE IF Len(buf) < total THEN Ok(<<>>)
      ELSE IF TrailerInPlace(buf, total) THEN Ok(<<total>>)
      ELSE Err("InvalidBodyLength")

-----------------------------------------------------------------------------
(***************************************************************************)
(* Properties of a wire w that decodes.                                    *)
(***************************************************************************)
Accepted(w) == ~Failed(decode(w))
Tokens(w) == tokenize(w).ok
Count(w, tag) == Len(SelectSeq(Tokens(w), LAMBDA k : k.tag = tag))
NumericCounts(w, spec) ==
  LET tokens == Tokens(w)
  IN  \A i \in DOMAIN tokens : tokens[i].tag \in DOMAIN spec => Parses(tokens[i].value)

\* NEW-22: a message in order goes out again exactly as it came in, the counts
\* of its groups included, right or wrong.  A count that is no number is the
\* exception, and so is a field of the envelope that comes twice.
WireFidelity(w, spec) ==
  LET r == decode_with_groups(w, spec)
  IN  (~Failed(r) /\ NumericCounts(w, spec) /\ Count(w, MSG_TYPE) = 1) =>
        r.ok.out_of_order \/ encode(r.ok) = w

\* "the two paths can never diverge": grouping a flat message afterwards, also
\* when another dictionary has grouped it before, is decoding it with groups.
RegroupAgrees(w, other, spec) ==
  LET flat == decode(w)
      once == restructure_groups(flat.ok.body, other)
      direct == decode_with_groups(w, spec).ok.body
  IN  (~Failed(flat) /\ NumericCounts(w, other)) =>
        /\ restructure_groups(flat.ok.body, spec) = Ok(direct)
        /\ restructure_groups(once.ok, spec) = Ok(direct)

\* A message with one symbol changed is not taken for a message.
CorruptionSeen(w, symbols) ==
  Accepted(w) =>
    \A i \in DOMAIN w : \A s \in symbols \ {w[i]} : ~Accepted([w EXCEPT ![i] = s])

\* BUG-38: a value holds a separator only if it is a data field whose length
\* field stands before it, so no field disappears into another one's value.
DataContained(w) ==
  LET tokens == Tokens(w)
  IN  Accepted(w) => \A i \in DOMAIN tokens :
        (\E n \in DOMAIN tokens[i].value : tokens[i].value[n] = SOH) =>
          /\ tokens[i - 1].tag \in LengthTags
          /\ data_field_for_length(tokens[i - 1].tag) = tokens[i].tag
          /\ Len(tokens[i].value) = parse(tokens[i - 1].value)

\* In however many pieces a stream comes, a message is framed when its last
\* symbol is there, at its own length, and not before.
FramesExactly(w, after) ==
  Accepted(w) => \A n \in 0..Len(w \o after) :
    frame_length(SubSeq(w \o after, 1, n)) = IF n < Len(w) THEN Ok(<<>>) ELSE Ok(<<Len(w)>>)

\* BUG-46: a wrong BodyLength costs this message, or this and the next, but the
\* stream stays at a message boundary (no data field here holds a 10=).
EndsAtBoundary(w, after, lengths) ==
  Accepted(w) => \A n \in lengths :
    LET r == frame_length([w \o after EXCEPT ![7] = Num(n)])
    IN  Failed(r) \/ r.ok = <<>> \/ r.ok[1] \in {Len(w), Len(w \o after)}

\* NEW-80: a field order moves fields of the body and neither loses nor repeats
\* one, groups included.
OrderKeepsFields(w, spec, order) ==
  LET msg == decode_with_groups(w, spec)
      plain == flatten_to_tokens(msg.ok.body)
      again == decode(encode_with_order(msg.ok, <<order>>))
      Of(map, tag) == SelectSeq(map, LAMBDA m : m.tag = tag)
      tokens == Tokens(w)
  IN  (~Failed(msg) /\ \A i \in DOMAIN tokens : tokens[i].tag \notin LengthTags) =>
        /\ ~Failed(again)
        /\ \A i \in DOMAIN plain : Of(again.ok.body, plain[i].tag) = Of(plain, plain[i].tag)
        /\ Len(again.ok.body) = Len(plain)

\* ReverseRoute: a reply goes back the way its message came, and the reply to
\* the reply is on the route of the message again, empty values included.
RouteComesBack(header) ==
  LET none == [header |-> <<>>]
      reply == [header |-> reverse_route(none, [header |-> header])]
      again == reverse_route(none, reply)
  IN  \A tag \in {115, 116, 128, 129, 144, 145} :
        /\ contains(again, tag) = contains(header, tag)
        /\ contains(header, tag) => get(again, tag) = get(header, tag)
=============================================================================
