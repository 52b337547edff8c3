----------------------------- MODULE MCSessions -----------------------------
(***************************************************************************)
(* Model checking of a session and of the messages it is given: Session    *)
(* with its counterparties (MCSession), and MessageCodec and Validation,   *)
(* which its messages go through, on samples: a wire or a validated        *)
(* message grows by one part at a time up to its bound, and every state is *)
(* one sample.  `part' says which of the two a behaviour is about.         *)
(***************************************************************************)
EXTENDS MCSession, SequencesExt

VARIABLES
  part,
  sample    \* [kind, of]

-----------------------------------------------------------------------------
(* Messages: 8, 9, 35, some fields, 10. *)
Codec == INSTANCE Validation WITH
  CheckMod <- 4096, MAX_BODY_LEN <- 60, MAX_GROUP_NESTING_DEPTH <- 2, FixVersions <- {<<9>>},
  Versions <- (<<9>> :> [major |-> 4, minor |-> 4, service_pack |-> <<>>, extension_pack |-> <<>>]),
  WellFormed <- [Currency |-> {<<5>>}]

a == 3
b == 4
n(i) == Codec!Num(i)
Raw(tag, value) == Codec!render_raw(tag, value)
Wire(parts) ==
  LET middle == Raw(35, <<a>>) \o FlattenSeq(parts)
      out == Raw(8, <<9>>) \o Raw(9, <<n(Len(middle))>>) \o middle
  IN  out \o Raw(10, <<n(Codec!Sum(out) % 4096)>>)

\* MDEntries with parties inside, and the header's hops; another dictionary.
GroupSpec == (268 :> [delimiter |-> 269, members |-> <<269, 270, 453>>])
             @@ (453 :> [delimiter |-> 448, members |-> <<448, 447>>])
             @@ (627 :> [delimiter |-> 628, members |-> <<628, 629>>])
OtherSpec == (453 :> [delimiter |-> 448, members |-> <<448, 55>>])

GroupParts == {Raw(268, <<n(2)>>), Raw(269, <<a>>), Raw(270, <<b>>), Raw(453, <<n(1)>>),
               Raw(448, <<a>>)}
AnyParts == GroupParts \cup
  {Raw(34, <<n(1)>>), Raw(627, <<n(1)>>), Raw(628, <<a>>), Raw(55, <<a>>), Raw(268, <<a>>),
   Raw(95, <<n(2)>>), Raw(96, <<1, a>>), Raw(93, <<n(5)>>), Raw(89, <<1, a, 1, a, 1>>)}

\* Any three parts, or four of a group.
WireGrows(parts, piece) ==
  \/ Len(parts) < 3
  \/ Len(parts) < 4 /\ Range(Append(parts, piece)) \subseteq GroupParts

NextWire == Wire(<<Raw(55, <<b>>)>>)
Symbols == {1, 2, a, b, n(0), n(1), n(2), n(10), n(55), n(95)}
Orders == {<<270, 268>>, <<55, 268, 55>>, <<448, 448, 269>>}

Routing(o, d) == {<<>>, <<Codec!Field(o, <<a>>)>>, <<Codec!Field(d, <<>>)>>,
                  <<Codec!Field(o, <<a>>), Codec!Field(d, <<b>>)>>,
                  <<Codec!Field(o, <<b>>), Codec!Field(o, <<a>>)>>}
Routes == {FlattenSeq(r) : r \in
  {<<x, y, z>> : x \in Routing(115, 128), y \in Routing(116, 129), z \in Routing(144, 145)}}

-----------------------------------------------------------------------------
(* A dictionary and messages for it: groups in groups, a header group, bad *)
(* values, fields of other messages, unknown and user-defined fields.      *)
Dict == INSTANCE Dictionary WITH
  FieldTypes <- {"String", "Char", "Int", "Length", "NumInGroup", "MultipleCharValue", "Boolean",
                 "Currency"},
  MAX_DEPTH <- 16

FieldLine(tag, type, values) == [d |-> "field", tag |-> tag, name |-> tag, type |-> type,
                                 values |-> values, open_enum |-> FALSE]
Tags(tags) == [i \in DOMAIN tags |-> Dict!Tag(tags[i])]
GroupLine(tag, members, required) == [d |-> "group", tag |-> tag, delimiter |-> members[1],
                                      members |-> Tags(members), required |-> Tags(required)]
MessageLine(type, required, optional) ==
  [d |-> "message", type |-> type, required |-> Tags(required), optional |-> Tags(optional),
   ordered |-> FALSE]

Rules == Dict!parse(<<
  [d |-> "version", of |-> <<9>>],
  FieldLine(8, "Char", {}), FieldLine(9, "Length", {}), FieldLine(35, "String", {}),
  FieldLine(10, "Char", {}), FieldLine(43, "Boolean", {}), FieldLine(115, "String", {}),
  FieldLine(55, "String", {}), FieldLine(277, "MultipleCharValue", {<<a>>, <<b>>}),
  FieldLine(15, "Currency", {}), FieldLine(5001, "Int", {}),
  FieldLine(268, "NumInGroup", {}), FieldLine(269, "Char", {<<a>>, <<b>>}),
  FieldLine(270, "Int", {}), FieldLine(453, "NumInGroup", {}), FieldLine(448, "String", {}),
  FieldLine(447, "Char", {}), FieldLine(627, "NumInGroup", {}), FieldLine(628, "String", {}),
  [d |-> "header", tags |-> {8, 9, 35, 43, 115, 627}], [d |-> "trailer", tags |-> {10}],
  MessageLine(<<a>>, <<>>, <<268, 277>>),
  GroupLine(268, <<269, 270, 453>>, <<269>>), GroupLine(453, <<448, 447>>, <<447>>),
  GroupLine(627, <<628>>, <<628>>)>>).ok

EntryParts == {Raw(268, <<n(1)>>), Raw(268, <<n(2)>>), Raw(269, <<a>>),
               Raw(453, <<n(1)>>), Raw(448, <<a>>), Raw(447, <<a>>)}
FieldParts == EntryParts \cup
  {Raw(269, <<9>>), Raw(270, <<n(5)>>), Raw(270, <<a>>), Raw(448, <<>>), Raw(627, <<n(1)>>), Raw(628, <<a>>),
   Raw(55, <<a>>), Raw(277, <<a, 8, b>>), Raw(277, <<b, 8, 9>>), Raw(15, <<5>>), Raw(43, <<6>>),
   Raw(115, <<>>), Raw(999, <<a>>), Raw(5000, <<>>), Raw(5001, <<a>>)}

\* Any three fields, or a group of up to five fields.
MessageGrows(parts, piece) ==
  \/ Len(parts) < 3
  \/ /\ Len(parts) \in 3..4 /\ parts[1][1] = n(268) /\ parts[2][1] = n(269)
     /\ Range(Append(parts, piece)) \subseteq EntryParts

Defaults == Codec!DefaultOptions
Options == {
  Defaults,
  [Defaults EXCEPT !.check_field_types = FALSE, !.first_field_in_group_is_delimiter = FALSE,
                   !.validate_fields_have_values = FALSE, !.check_required_fields = FALSE,
                   !.validate_unordered_group_fields = FALSE, !.allow_unknown_msg_fields = TRUE],
  [Defaults EXCEPT !.check_required_envelope_fields = TRUE, !.requires_orig_sending_time = TRUE,
                   !.validate_user_defined_fields = TRUE, !.validate_fields_out_of_order = TRUE,
                   !.check_repeated_tags = FALSE]}

-----------------------------------------------------------------------------
Samples == [kind: {"wire", "message"}, of: {<<>>}] \cup [kind: {"route"}, of: Routes]

GrowWire ==
  /\ sample.kind = "wire"
  /\ \E piece \in AnyParts :
       WireGrows(sample.of, piece) /\ sample' = [sample EXCEPT !.of = Append(@, piece)]

GrowMessage ==
  /\ sample.kind = "message"
  /\ \E piece \in FieldParts :
       MessageGrows(sample.of, piece) /\ sample' = [sample EXCEPT !.of = Append(@, piece)]


-----------------------------------------------------------------------------
allVars == <<part, vars, sample>>

Unused == [kind |-> "unused"]

MCInit ==
  /\ \/ part = "session" /\ sample = Unused
     \/ part = "messages" /\ setup = "acceptor" /\ sample \in Samples
  /\ Init

S == part = "session" /\ UNCHANGED <<part, sample>>
M == part = "messages" /\ UNCHANGED <<part, vars>>

MCNext == \/ S /\ Next
          \/ M /\ GrowWire
          \/ M /\ GrowMessage

MCSpec == MCInit /\ [][MCNext]_allVars

-----------------------------------------------------------------------------
\* What a message goes through on the wire keeps it whole:
\*  - NEW-22: a message in order goes out again as it came in, a field order
\*    (NEW-80) neither loses nor repeats a field, and regrouping a decoded
\*    message is decoding it with groups;
\*  - BUG-38: only a data field of a declared length holds separators;
\*  - one changed symbol is noticed, a message is framed when it is complete and
\*    at its length, and with a wrong BodyLength the stream stays at a message
\*    boundary (BUG-46);
\*  - ReverseRoute applied twice is the route itself.
WireKept(text) ==
  /\ text.kind = "wire" =>
       /\ Codec!WireFidelity(Wire(text.of), GroupSpec)
       /\ Codec!RegroupAgrees(Wire(text.of), GroupSpec, OtherSpec)
       /\ Codec!RegroupAgrees(Wire(text.of), OtherSpec, GroupSpec)
       /\ Codec!DataContained(Wire(text.of))
       /\ \A order \in Orders : Codec!OrderKeepsFields(Wire(text.of), GroupSpec, order)
  /\ (text.kind = "wire" /\ Len(text.of) <= 2) =>
       /\ Codec!CorruptionSeen(Wire(text.of), Symbols)
       /\ Codec!FramesExactly(Wire(text.of), NextWire)
       /\ Codec!EndsAtBoundary(Wire(text.of), NextWire, 0..60)
  /\ text.kind = "route" => Codec!RouteComesBack(text.of)

\* WireKept of the first sample and of each one it grows into.
CodecFaithful == WireKept(sample) /\ [][WireKept(sample')]_allVars

\* The verdict of the validation is about the message: flat and structured groups
\* get the same one, an accepted message has the entries its counts declare, and
\* user-defined fields that are not validated make no difference (NEW-17).
VerdictHolds(text) ==
  text.kind = "message" =>
    /\ Codec!RepresentationsAgree(Wire(text.of), Rules, Options)
    /\ Codec!CountsBacked(Wire(text.of), Rules, Defaults)
    /\ Codec!UserFieldsIgnored(Wire(text.of), Rules, Options)

\* VerdictHolds of the first sample and of each one it grows into.
VerdictsAgree == VerdictHolds(sample) /\ [][VerdictHolds(sample')]_allVars
=============================================================================
