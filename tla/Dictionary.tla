----------------------------- MODULE Dictionary -----------------------------
(***************************************************************************)
(* truefix-dict: from the lines of a normalized dictionary to a            *)
(* DataDictionary (parser.rs), and merging another one into it (extend).   *)
(* A line is a record with its directive; a member of a list is a tag or a *)
(* reference to a component, whose name is a number (names are taken in    *)
(* their order).  A result is [ok |-> v] or [err |-> why]; an Option is a  *)
(* sequence of at most one element.                                        *)
(***************************************************************************)
EXTENDS Integers, Sequences, SequencesExt, FiniteSetsExt, TLC

CONSTANTS
  FieldTypes,   \* the type tokens FieldType::parse knows
  MAX_DEPTH     \* of build_child: 16

Ok(v) == [ok |-> v]
Err(why) == [err |-> why]
Failed(r) == "err" \in DOMAIN r

Tag(t) == [tag |-> t]
Component(c) == [component |-> c]
IsComponent(m) == "component" \in DOMAIN m

-----------------------------------------------------------------------------
(* Components. *)
RECURSIVE resolve_component(_, _, _)
RECURSIVE ResolveMembers(_, _, _)

ResolveMembers(members, raw, resolving) ==
  LET m == Head(members)
      head == IF IsComponent(m) THEN resolve_component(m.component, raw, resolving)
              ELSE Ok(<<m.tag>>)
      tail == ResolveMembers(Tail(members), raw, resolving)
  IN  IF members = <<>> THEN Ok(<<>>)
      ELSE IF Failed(head) THEN head
      ELSE IF Failed(tail) THEN tail
      ELSE Ok(head.ok \o tail.ok)

\* What is resolved already is the same again; the cache is left out.
resolve_component(name, raw, resolving) ==
  IF name \in resolving THEN Err("ComponentCycle")
  ELSE IF name \notin DOMAIN raw THEN Err("UnknownComponent")
  ELSE ResolveMembers(raw[name], raw, resolving \cup {name})

\* In the order of the names; the first error counts.
resolve_all_components(raw) ==
  LET r == [c \in DOMAIN raw |-> resolve_component(c, raw, {})]
      bad == {c \in DOMAIN raw : Failed(r[c])}
  IN  IF bad = {} THEN Ok([c \in DOMAIN raw |-> r[c].ok]) ELSE r[Min(bad)]

KnownComponents(members, components) ==
  \A i \in DOMAIN members : IsComponent(members[i]) => members[i].component \in DOMAIN components

expand_members(members, components) ==
  FlattenSeq([i \in DOMAIN members |->
    IF IsComponent(members[i]) THEN components[members[i].component] ELSE <<members[i].tag>>])

-----------------------------------------------------------------------------
(* Groups. *)

\* The members of a group and of the groups in it, added to out.
RECURSIVE collect_group_members(_, _, _)
collect_group_members(groups, count_tag, out) ==
  LET Add(acc, m) == IF m \in acc THEN acc
                     ELSE collect_group_members(groups, m, acc \cup {m})
  IN  IF count_tag \notin DOMAIN groups THEN out
      ELSE FoldLeft(Add, out, groups[count_tag].members)

\* A dictionary of the group's own members, for their types.
RECURSIVE build_child(_, _, _, _)
build_child(members, fields, groups, depth) ==
  LET own == Range(members)
      Nested(t) == [delimiter |-> groups[t].delimiter, members |-> groups[t].members,
                    child |-> build_child(groups[t].members, fields, groups, depth + 1)]
  IN  IF depth > MAX_DEPTH \/ own \cap DOMAIN fields = {} THEN <<>>
      ELSE <<[fields |-> Restrict(fields, own \cap DOMAIN fields),
              groups |-> [t \in own \cap DOMAIN groups |-> Nested(t)]]>>

\* Faulty variant: only the message's own groups, not the groups in them.
MemberTagsShallow(groups, mdef) ==
  UNION {Range(groups[t].members) : t \in Range(mdef.required \o mdef.optional) \cap DOMAIN groups}

MemberTags(groups, mdef) ==
  FoldLeft(LAMBDA out, tag : collect_group_members(groups, tag, out), {},
           mdef.required \o mdef.optional)

WithMemberTags(messages, groups) ==
  [t \in DOMAIN messages |->
    [messages[t] EXCEPT !.member_tags = MemberTags(groups, messages[t])]]

-----------------------------------------------------------------------------
(* Parsing. *)
Of(lines, directive) == SelectSeq(lines, LAMBDA l : l.d = directive)

\* Line i repeats the identity of an earlier field or message.
Repeats(lines, i) ==
  \E j \in 1..(i - 1) :
    \/ lines[i].d = "field" /\ lines[j].d = "field"
       /\ (lines[i].tag = lines[j].tag \/ lines[i].name = lines[j].name)
    \/ lines[i].d = "message" /\ lines[j].d = "message" /\ lines[i].type = lines[j].type

Fault(lines, i) ==
  IF lines[i].d = "malformed" THEN "Malformed"
  ELSE IF lines[i].d = "field" /\ lines[i].type \notin FieldTypes THEN "UnknownType"
  ELSE IF Repeats(lines, i) THEN "DuplicateDefinition"
  ELSE "none"

\* The last line of a key counts.
Keyed(lines, key(_), value(_)) ==
  [k \in {key(lines[i]) : i \in DOMAIN lines} |->
    value(lines[Max({i \in DOMAIN lines : key(lines[i]) = k})])]

\* Lists are resolved after the whole document is read.
ComponentLines(lines) == Of(lines, "component")

Tags(lines, directive) ==
  UNION {lines[i].tags : i \in {i \in DOMAIN lines : lines[i].d = directive}}

\* The tables of a document without a faulty line.
Build(lines, components) ==
  LET Expand(members) == expand_members(members, components)
      fields == Keyed(Of(lines, "field"), LAMBDA l : l.tag,
                      LAMBDA l : [name |-> l.name, type |-> l.type, values |-> l.values,
                                  open_enum |-> l.open_enum])
      plain == Keyed(Of(lines, "group"), LAMBDA l : l.tag,
                     LAMBDA l : [delimiter |-> l.delimiter, members |-> Expand(l.members),
                                 required |-> Expand(l.required)])
      groups == [t \in DOMAIN plain |->
                  plain[t] @@ [child |-> build_child(plain[t].members, fields, plain, 0)]]
      messages == Keyed(Of(lines, "message"), LAMBDA l : l.type,
                        LAMBDA l : [required |-> Expand(l.required), optional |-> Expand(l.optional),
                                    member_tags |-> {},
                                    field_order |-> IF l.ordered THEN <<Expand(l.required \o l.optional)>>
                                                    ELSE <<>>])
      versions == Of(lines, "version")
      metas == Of(lines, "version-meta")
  IN  [version |-> Last(versions).of,
       version_meta |-> IF metas = <<>> THEN <<>> ELSE <<Last(metas).of>>,
       fields |-> fields,
       field_by_name |-> [n \in {fields[t].name : t \in DOMAIN fields} |->
                           CHOOSE t \in DOMAIN fields : fields[t].name = n],
       messages |-> WithMemberTags(messages, groups),
       header |-> Tags(lines, "header"), trailer |-> Tags(lines, "trailer"),
       groups |-> groups, components |-> components]

parse(lines) ==
  LET bad == {i \in DOMAIN lines : Fault(lines, i) # "none"}
      components == resolve_all_components(Keyed(ComponentLines(lines), LAMBDA l : l.name,
                                                 LAMBDA l : l.members))
      lists == {lines[i].members : i \in {i \in DOMAIN lines : lines[i].d = "group"}}
               \cup {lines[i].required : i \in {i \in DOMAIN lines : lines[i].d \in {"group", "message"}}}
               \cup {lines[i].optional : i \in {i \in DOMAIN lines : lines[i].d = "message"}}
  IN  IF bad # {} THEN Err(Fault(lines, Min(bad)))
      ELSE IF Of(lines, "version") = <<>> THEN Err("MissingVersion")
      ELSE IF Failed(components) THEN components
      ELSE IF \E l \in lists : ~KnownComponents(l, components.ok) THEN Err("UnknownComponent")
      ELSE Ok(Build(lines, components.ok))

-----------------------------------------------------------------------------
(* Merging. *)
Differ(f, g) == {k \in DOMAIN f \cap DOMAIN g : f[k] # g[k]}

\* Another field of self has the name.
NameTaken(self, other, tag) ==
  LET name == other.fields[tag].name
  IN  name \in DOMAIN self.field_by_name /\ self.field_by_name[name] # tag

\* Messages see the groups of both.
MergedMessages(messages, groups) == WithMemberTags(messages, groups)

\* A conflict leaves self as it is.  The field conflicts come in tag order.
extend(self, other) ==
  LET fieldwise == Differ(self.fields, other.fields)
      namewise == {t \in DOMAIN other.fields : NameTaken(self, other, t)}
      first == Min(fieldwise \cup namewise)
      groups == self.groups @@ other.groups
  IN  IF fieldwise \cup namewise # {}
      THEN Err(IF first \in fieldwise THEN "field" ELSE "field name")
      ELSE IF Differ(self.messages, other.messages) # {} THEN Err("message")
      ELSE IF Differ(self.groups, other.groups) # {} THEN Err("group")
      ELSE IF Differ(self.components, other.components) # {} THEN Err("component")
      ELSE Ok([self EXCEPT
             !.fields = @ @@ other.fields,
             !.field_by_name = @ @@ other.field_by_name,
             !.messages = MergedMessages(@ @@ other.messages, groups),
             !.groups = groups,
             !.components = @ @@ other.components,
             !.header = @ \cup other.header,
             !.trailer = @ \cup other.trailer])

-----------------------------------------------------------------------------
(***************************************************************************)
(* Properties.                                                             *)
(***************************************************************************)

\* The tags in the groups of a message, groups within groups included: the
\* least set closed under membership.
Closed(d, mdef, s) ==
  \A t \in (Range(mdef.required \o mdef.optional) \cup s) \cap DOMAIN d.groups :
    Range(d.groups[t].members) \subseteq s
AllMembers(d, mdef) ==
  LET tags == UNION {Range(d.groups[t].members) : t \in DOMAIN d.groups}
  IN  {t \in tags : \A s \in SUBSET tags : Closed(d, mdef, s) => t \in s}

MembersKnown(d) ==
  \A t \in DOMAIN d.messages : d.messages[t].member_tags = AllMembers(d, d.messages[t])

\* A message knows the members of all its groups, also of a group in a group
\* or in itself, whatever the document's order.
MembersClosed(lines) ==
  LET r == parse(lines) IN ~Failed(r) => MembersKnown(r.ok)

\* "regardless of definition order": turning a document round changes nothing,
\* if no group or component is given twice.
OrderFree(lines) ==
  LET r == parse(lines)
      t == parse(Reverse(lines))
      Once(directive, key(_)) ==
        LET of == Of(lines, directive)
        IN  Cardinality({key(of[i]) : i \in DOMAIN of}) = Len(of)
  IN  (/\ Once("group", LAMBDA l : l.tag) /\ Once("component", LAMBDA l : l.name)
       /\ Len(Of(lines, "version")) <= 1 /\ Len(Of(lines, "version-meta")) <= 1)
      => Failed(r) = Failed(t) /\ (~Failed(r) => r = t)

\* NEW-53: what two dictionaries merge to, or that they conflict, does not depend
\* on which is merged into which (apart from the version), every field is found
\* by its name, and messages know the members of the merged groups.
MergeSymmetric(a, b) ==
  LET r == extend(a, b)
      t == extend(b, a)
  IN  /\ Failed(r) = Failed(t)
      /\ ~Failed(r) =>
           /\ r.ok = [t.ok EXCEPT !.version = a.version, !.version_meta = a.version_meta]
           /\ \A tag \in DOMAIN r.ok.fields : r.ok.field_by_name[r.ok.fields[tag].name] = tag
           /\ MembersKnown(r.ok)

\* "merging the same extension twice is safe": so it is for an extension whose
\* messages use no group that is defined elsewhere.
MergeTwice(a, b) ==
  LET r == extend(a, b)
  IN  (~Failed(r) /\ \A t \in DOMAIN b.messages : b.messages[t].member_tags = r.ok.messages[t].member_tags)
      => extend(r.ok, b) = r
=============================================================================
