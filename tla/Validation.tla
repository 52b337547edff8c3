----------------------------- MODULE Validation -----------------------------
(***************************************************************************)
(* DataDictionary::validate of truefix-dict: the fields of a message, its  *)
(* repeating groups in both of their representations (Member::Group as the *)
(* receive path builds them, and flat fields), and what is required.  A    *)
(* dictionary is the record Dictionary's parse builds; a verdict is <<>>   *)
(* for Ok and <<[reason, tag, business]>> for Err.                         *)
(***************************************************************************)
EXTENDS MessageCodec, FiniteSetsExt

CONSTANTS
  Versions,    \* BeginString values that parse, with what they parse to
  WellFormed   \* for the types with a format of their own, its values

UDF_START == 5000
REVERSE_ROUTE_TAGS == {115, 116, 128, 129, 144, 145}
Space == 8
Yes == 6
No == 7

Accept == <<>>
Session(reason, tag) == <<[reason |-> reason, tag |-> tag, business |-> FALSE]>>
Business(reason, tag) == <<[reason |-> reason, tag |-> tag, business |-> TRUE]>>

-----------------------------------------------------------------------------
(* Values. *)
Separated(value) ==
  LET StartsAt(i) == i = 1 \/ value[i - 1] = Space
      EndsAt(j) == j = Len(value) \/ value[j + 1] = Space
      Whole(i, j) == StartsAt(i) /\ EndsAt(j) /\ \A k \in i..j : value[k] # Space
  IN  {SubSeq(value, p[1], p[2]) :
         p \in {p \in (1..(Len(value) + 1)) \X (0..Len(value)) :
                  p[1] <= p[2] + 1 /\ Whole(p[1], p[2])}}

IsChar(value) == Len(value) = 1 /\ value[1] < 20   \* a letter or a digit

value_ok(type, value, legacy_char_lenient) ==
  CASE type = "DayOfMonth" -> Parses(value) /\ parse(value) \in 1..31
    [] type \in {"Int", "Length", "SeqNum", "NumInGroup", "Float", "Price", "Qty", "Amt",
                 "Percentage", "PriceOffset"} -> Parses(value)
    [] type = "Char" -> legacy_char_lenient \/ IsChar(value)
    [] type = "MultipleCharValue" -> \A t \in Separated(value) : IsChar(t)
    [] type = "Boolean" -> value \in {<<Yes>>, <<No>>}
    [] type \in {"UtcTimestamp", "Time", "UtcTimeOnly", "UtcDate", "Currency", "Country",
                 "LocalMktDate", "MonthYear", "Exchange"} -> value \in WellFormed[type]
    [] OTHER -> TRUE

allows(fdef, value) ==
  \/ fdef.values = {} \/ fdef.open_enum
  \/ IF fdef.type \in {"MultipleValueString", "MultipleStringValue", "MultipleCharValue"}
     THEN Separated(value) \subseteq fdef.values ELSE value \in fdef.values

\* The plain version line, or an explicit version-meta.
EffectiveVersion(d) ==
  IF d.version_meta # <<>> THEN d.version_meta
  ELSE IF d.version \in DOMAIN Versions THEN <<Versions[d.version]>> ELSE <<>>

is_legacy_char_lenient(d) ==
  /\ d.version \in DOMAIN Versions
  /\ Versions[d.version].major = 4 /\ Versions[d.version].minor <= 1

RECURSIVE group_contains_member_transitively(_, _, _)
group_contains_member_transitively(d, count_tag, tag) ==
  /\ count_tag \in DOMAIN d.groups
  /\ \E m \in Range(d.groups[count_tag].members) :
       m = tag \/ group_contains_member_transitively(d, m, tag)

HeaderKnows(d, tag) ==
  tag \in d.header \/ \E h \in d.header : group_contains_member_transitively(d, h, tag)

contains_member(mdef, tag) ==
  tag \in Range(mdef.required \o mdef.optional) \cup mdef.member_tags

-----------------------------------------------------------------------------
(* Fields at the top level. *)
TypeFault(d, field) ==
  LET fdef == d.fields[field.tag]
  IN  IF ~value_ok(fdef.type, field.value, is_legacy_char_lenient(d))
      THEN Session("IncorrectDataFormat", field.tag)
      ELSE IF ~allows(fdef, field.value) THEN Session("ValueIsIncorrect", field.tag)
      ELSE Accept

\* ValidateUserDefinedFields=N: no check of the loop applies.
Skipped(tag, opts) == tag >= UDF_START /\ ~opts.validate_user_defined_fields

\* What the loop finds at field i of all.
FieldFault(d, mdef, all, i, opts) ==
  LET field == all[i]
      tag == field.tag
      typed == IF opts.check_field_types /\ tag \notin {BEGIN_STRING, CHECK_SUM}
               THEN TypeFault(d, field) ELSE Accept
      belongs == HeaderKnows(d, tag) \/ tag \in d.trailer \/ contains_member(mdef, tag)
  IN  IF Skipped(tag, opts) THEN Accept
      ELSE IF /\ opts.check_repeated_tags /\ tag \notin mdef.member_tags
              /\ \E j \in 1..(i - 1) : all[j].tag = tag
           THEN Session("TagAppearsMoreThanOnce", tag)
      ELSE IF /\ opts.validate_fields_have_values /\ field.value = <<>>
              /\ tag \notin REVERSE_ROUTE_TAGS
           THEN Session("TagSpecifiedWithoutValue", tag)
      ELSE IF tag \notin DOMAIN d.fields
           THEN IF opts.allow_unknown_msg_fields THEN Accept
                ELSE Session("InvalidTagNumber", tag)
      ELSE IF typed # Accept THEN typed
      ELSE IF ~belongs /\ ~opts.allow_unknown_msg_fields
           THEN Session("TagNotDefinedForMessageType", tag)
      ELSE Accept

\* The first fault of a sequence of checks.
FirstFault(n, Check(_)) ==
  LET bad == {i \in 1..n : Check(i) # Accept} IN IF bad = {} THEN Accept ELSE Check(Min(bad))

-----------------------------------------------------------------------------
(* Groups. *)
check_group_field_value(d, field, opts) ==
  IF opts.validate_fields_have_values /\ field.value = <<>>
  THEN Session("TagSpecifiedWithoutValue", field.tag)
  ELSE IF ~opts.check_field_types \/ field.tag \notin DOMAIN d.fields THEN Accept
  ELSE TypeFault(d, field)

present_in_structured_entry(d, entry, tag) ==
  IF tag \in DOMAIN d.groups
  THEN \E i \in DOMAIN entry : /\ IsGroup(entry[i]) /\ entry[i].tag = tag /\ entry[i].entries # <<>>
                               /\ \A j \in 1..(i - 1) : ~(IsGroup(entry[j]) /\ entry[j].tag = tag)
  ELSE contains(entry, tag)

Position(seq, tag) == SelectInSeq(seq, LAMBDA m : m = tag)
TagAfter(map, i, default) == IF i < Len(map) THEN <<map[i + 1].tag>> ELSE default

\* Faulty variant: the count on the wire is not compared (before feature 011).
CountUnchecked(d, g, next, opts) == Accept

\* Fewer entries than declared and a member next: the entry has no delimiter.
CountFault(d, g, next, opts) ==
  LET gdef == d.groups[g.tag]
  IN  IF g.declared = <<>> \/ g.declared = <<Len(g.entries)>> THEN Accept
      ELSE IF /\ g.declared[1] > Len(g.entries) /\ next # <<>>
              /\ opts.first_field_in_group_is_delimiter /\ next[1] \in Range(gdef.members)
           THEN Session("RepeatingGroupFieldsOutOfOrder", gdef.delimiter)
      ELSE Session("IncorrectNumInGroupCount", g.tag)

Missing(d, gdef, entry, opts) ==
  IF opts.check_required_fields
  THEN SelectSeq(gdef.required, LAMBDA t : ~present_in_structured_entry(d, entry, t))
  ELSE <<>>

RECURSIVE validate_structured_group(_, _, _, _)
validate_structured_group(d, g, next, opts) ==
  LET gdef == d.groups[g.tag]
      count == CountFault(d, g, next, opts)
      Index(m) == Position(gdef.members, m.tag)
      Last_(entry, i) ==
        LET before == {j \in 1..(i - 1) : Index(entry[j]) # 0}
        IN  IF before = {} THEN 0 ELSE Index(entry[Max(before)])
      MemberFault(entry, i) ==
        IF Index(entry[i]) = 0 THEN Accept
        ELSE IF opts.validate_unordered_group_fields /\ Index(entry[i]) < Last_(entry, i)
             THEN Session("RepeatingGroupFieldsOutOfOrder", entry[i].tag)
        ELSE IF IsGroup(entry[i])
             THEN validate_structured_group(d, entry[i], TagAfter(entry, i, next), opts)
        ELSE check_group_field_value(d, entry[i], opts)
      EntryFault(entry) ==
        LET members == FirstFault(Len(entry), LAMBDA i : MemberFault(entry, i))
            missing == Missing(d, gdef, entry, opts)
        IN  IF members # Accept THEN members
            ELSE IF missing # <<>> THEN Session("RequiredTagMissing", missing[1])
            ELSE Accept
  IN  IF count # Accept THEN count
      ELSE FirstFault(Len(g.entries), LAMBDA e : EntryFault(g.entries[e]))

\* The flat walk: from pos, [pos |-> where it ends, fault |-> verdict].
At(pos, fault) == [pos |-> pos, fault |-> fault]

RECURSIVE validate_group(_, _, _, _)
RECURSIVE FlatEntries(_, _, _, _, _)
RECURSIVE FlatMembers(_, _, _, _, _, _)

\* The members of one entry after its delimiter; seen holds the tags so far.
FlatMembers(d, all, pos, tag, seen, opts) ==
  LET gdef == d.groups[tag]
      t == all[pos].tag
      nested == IF t \in DOMAIN d.groups THEN validate_group(d, all, pos, opts)
                ELSE At(pos + 1, check_group_field_value(d, all[pos], opts))
      missing == IF opts.check_required_fields
                 THEN SelectSeq(gdef.required, LAMBDA r : r \notin Range(seen)) ELSE <<>>
      ended == At(pos, IF missing = <<>> THEN Accept
                       ELSE Session("RequiredTagMissing", missing[1]))
  IN  IF pos > Len(all) THEN ended
      ELSE IF t = gdef.delimiter \/ t \notin Range(gdef.members) THEN ended
      ELSE IF /\ opts.validate_unordered_group_fields
              /\ Position(gdef.members, t) < Position(gdef.members, Last(seen))
           THEN At(pos, Session("RepeatingGroupFieldsOutOfOrder", t))
      ELSE IF nested.fault # Accept THEN nested
      ELSE FlatMembers(d, all, nested.pos, tag, Append(seen, t), opts)

FlatEntries(d, all, pos, head, opts) ==
  LET gdef == d.groups[head.tag]
      t == all[pos].tag
      value == check_group_field_value(d, all[pos], opts)
      entry == FlatMembers(d, all, pos + 1, head.tag, <<gdef.delimiter>>, opts)
      ended == At(pos, IF head.declared = head.found THEN Accept
                       ELSE Session("IncorrectNumInGroupCount", head.tag))
  IN  IF pos > Len(all) THEN ended
      ELSE IF t # gdef.delimiter
           THEN IF /\ opts.first_field_in_group_is_delimiter /\ head.found < head.declared
                   /\ t \in Range(gdef.members) \cup DOMAIN d.groups
                THEN At(pos, Session("RepeatingGroupFieldsOutOfOrder", gdef.delimiter))
                ELSE ended
      ELSE IF value # Accept THEN At(pos, value)
      ELSE IF entry.fault # Accept THEN entry
      ELSE FlatEntries(d, all, entry.pos, [head EXCEPT !.found = @ + 1], opts)

validate_group(d, all, pos, opts) ==
  IF ~Parses(all[pos].value) THEN At(pos, Session("IncorrectDataFormat", all[pos].tag))
  ELSE FlatEntries(d, all, pos + 1,
                   [tag |-> all[pos].tag, declared |-> parse(all[pos].value), found |-> 0], opts)

RECURSIVE FlatFrom(_, _, _, _)
FlatFrom(d, all, pos, opts) ==
  LET group == validate_group(d, all, pos, opts)
  IN  IF pos > Len(all) THEN Accept
      ELSE IF all[pos].tag \notin DOMAIN d.groups THEN FlatFrom(d, all, pos + 1, opts)
      ELSE IF group.fault # Accept THEN group.fault
      ELSE FlatFrom(d, all, group.pos, opts)

\* The first group of the tag in the map, with the tag of what follows it.
find_structured_group_with_next(d, map, tag, opts) ==
  LET at == SelectInSeq(map, LAMBDA m : IsGroup(m) /\ m.tag = tag)
  IN  IF at = 0 THEN Accept
      ELSE validate_structured_group(d, map[at], TagAfter(map, at, <<>>), opts)

validate_groups(d, msg, opts) ==
  LET keys == SetToSortSeq(DOMAIN d.groups, <)
      Structured(i) ==
        LET header == find_structured_group_with_next(d, msg.header, keys[i], opts)
        IN  IF header # Accept THEN header
            ELSE find_structured_group_with_next(d, msg.body, keys[i], opts)
      structured == FirstFault(Len(keys), Structured)
      header == FlatFrom(d, fields(msg.header), 1, opts)
  IN  IF structured # Accept THEN structured
      ELSE IF header # Accept THEN header
      ELSE FlatFrom(d, fields(msg.body), 1, opts)

-----------------------------------------------------------------------------
present(msg, tag) ==
  \E map \in {msg.header, msg.body, msg.trailer} : \E i \in DOMAIN map : map[i].tag = tag

RequiredTags(mdef, opts) ==
  IF ~opts.check_required_fields THEN <<>>
  ELSE mdef.required \o (IF opts.check_required_envelope_fields
                         THEN <<BEGIN_STRING, BODY_LENGTH, MSG_TYPE, CHECK_SUM>> ELSE <<>>)

WrongVersion(d, msg) ==
  LET mine == EffectiveVersion(d)
      value == Value(msg.header, BEGIN_STRING)
  IN  mine # <<>> /\ value \in DOMAIN Versions /\ Versions[value] # mine[1]

validate(d, msg, opts) ==
  LET poss_dup == Value(msg.header, 43) = <<Yes>>
      all == fields(msg.header) \o fields(msg.body) \o fields(msg.trailer)
      type == get(msg.header, MSG_TYPE)
      mdef == d.messages[type]
      loop == FirstFault(Len(all), LAMBDA i : FieldFault(d, mdef, all, i, opts))
      groups == IF opts.check_groups THEN validate_groups(d, msg, opts) ELSE Accept
      missing == SelectSeq(RequiredTags(mdef, opts), LAMBDA t : ~present(msg, t))
  IN  IF ~opts.validate_incoming_message THEN Accept
      ELSE IF WrongVersion(d, msg) THEN Session("ValueIsIncorrect", BEGIN_STRING)
      ELSE IF opts.validate_fields_out_of_order /\ msg.out_of_order
           THEN Session("TagOutOfRequiredOrder", 0)
      ELSE IF poss_dup /\ ~opts.allow_pos_dup THEN Session("ValueIsIncorrect", 43)
      ELSE IF poss_dup /\ opts.requires_orig_sending_time /\ ~contains(msg.header, 122)
           THEN Session("RequiredTagMissing", 122)
      ELSE IF ~contains(msg.header, MSG_TYPE) THEN Session("InvalidMsgType", MSG_TYPE)
      ELSE IF type \notin DOMAIN d.messages THEN Business("InvalidMsgType", MSG_TYPE)
      ELSE IF loop # Accept THEN loop
      ELSE IF groups # Accept THEN groups
      ELSE IF missing # <<>> THEN Session("RequiredTagMissing", missing[1])
      ELSE Accept

DefaultOptions ==
  [validate_fields_have_values |-> TRUE, validate_user_defined_fields |-> FALSE,
   allow_unknown_msg_fields |-> FALSE, check_required_fields |-> TRUE,
   check_field_types |-> TRUE, check_groups |-> TRUE,
   first_field_in_group_is_delimiter |-> TRUE, validate_unordered_group_fields |-> TRUE,
   check_repeated_tags |-> TRUE, validate_fields_out_of_order |-> FALSE,
   validate_incoming_message |-> TRUE, allow_pos_dup |-> TRUE,
   requires_orig_sending_time |-> FALSE, check_required_envelope_fields |-> FALSE]

-----------------------------------------------------------------------------
(***************************************************************************)
(* Properties of a wire w and a dictionary d.                              *)
(***************************************************************************)
\* Both representations of the message, with the differences known: a group
\* that comes twice (only its first is checked when structured), one the message
\* type does not have (unseen when structured), a tag that comes twice in the
\* header, as in a group of two entries (refused when flat), a count that is no
\* number, and a required group without entries.
Comparable(w, d) ==
  LET flat == decode(w).ok
      grouped == decode_with_groups(w, d.groups).ok
      Top(map) == SelectSeq(map, IsGroup)
      Once(map) == \A i, j \in DOMAIN Top(map) : Top(map)[i].tag = Top(map)[j].tag => i = j
      mdef == d.messages[get(flat.header, MSG_TYPE)]
      required == UNION {Range(d.groups[t].required) : t \in DOMAIN d.groups}
  IN  /\ NumericCounts(w, d.groups)
      /\ Once(grouped.header) /\ Once(grouped.body)
      /\ \A i \in DOMAIN Top(grouped.header) :
           Top(grouped.header)[i].tag \in d.header
      /\ \A i, j \in DOMAIN flat.header : flat.header[i].tag = flat.header[j].tag => i = j
      /\ \A i \in DOMAIN Top(grouped.body) : contains_member(mdef, Top(grouped.body)[i].tag)
      /\ \A i \in DOMAIN flat.body :
           flat.body[i].tag \in required \cap DOMAIN d.groups => parse(flat.body[i].value) # 0

\* Whether a message is accepted does not depend on the representation in which
\* its groups reach validate ("Two independent representations of a group both
\* reach this method and are both checked").
RepresentationsAgree(w, d, options) ==
  LET flat == decode(w)
      grouped == decode_with_groups(w, d.groups)
  IN  (~Failed(flat) /\ ~Failed(grouped) /\ Comparable(w, d)) =>
        \A opts \in options :
          (validate(d, flat.ok, opts) = Accept) = (validate(d, grouped.ok, opts) = Accept)

\* An accepted message has every entry its counts declare, at every level of
\* nesting: its delimiters are at least as many as the counts add up to.
CountsBacked(w, d, opts) ==
  LET grouped == decode_with_groups(w, d.groups)
      flat == decode(w).ok.body
      Declares(t) == LET of == SelectSeq(flat, LAMBDA m : m.tag = t)
                     IN  Sum([i \in DOMAIN of |-> parse(of[i].value)])
      Has(t) == Len(SelectSeq(flat, LAMBDA m : m.tag = t))
  IN  (~Failed(grouped) /\ validate(d, grouped.ok, opts) = Accept /\ Comparable(w, d)) =>
        \A t \in DOMAIN d.groups : Declares(t) <= Has(d.groups[t].delimiter)

\* NEW-17: with ValidateUserDefinedFields=N the user-defined fields outside
\* groups make no difference, empty, repeated or unknown as they may be.
UserFieldsIgnored(w, d, options) ==
  LET r == decode_with_groups(w, d.groups)
      Without(map) == SelectSeq(map, LAMBDA m : m.tag < UDF_START)
      plain == [r.ok EXCEPT !.header = Without(@), !.body = Without(@), !.trailer = Without(@)]
  IN  (~Failed(r) /\ plain # r.ok) =>
        \A opts \in {o \in options : ~o.validate_user_defined_fields} :
          (validate(d, r.ok, opts) = Accept) = (validate(d, plain, opts) = Accept)
=============================================================================
