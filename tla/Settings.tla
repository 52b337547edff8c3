------------------------------ MODULE Settings ------------------------------
(***************************************************************************)
(* truefix-config's settings document: sections of key=value lines, the    *)
(* [DEFAULT] section merged into every [SESSION], ${name} references, and  *)
(* the check for sessions of one identity.  A value is a sequence of parts,*)
(* each a piece of text or a reference.                                    *)
(***************************************************************************)
EXTENDS Naturals, Sequences, SequencesExt, TLC

CONSTANTS
  Environment,  \* process environment: names to values
  IdentityKeys  \* the eight keys a session's identity is made of

Text(t) == [ref |-> FALSE, name |-> t]
Ref(name) == [ref |-> TRUE, name |-> name]

\* Lines of a document; blank lines and comments are not there.
Section(name) == [kind |-> "section", name |-> name, value |-> <<>>]
Pair(key, value) == [kind |-> "pair", name |-> key, value |-> value]
Malformed == [kind |-> "malformed", name |-> "", value |-> <<>>]

Ok(v) == [ok |-> v]
Err(why) == [err |-> why]
Failed(r) == "err" \in DOMAIN r

NoKeys == [k \in {} |-> <<>>]

\* The settings themselves come before the environment; what the environment
\* gives is taken as it stands.
RECURSIVE interpolate_value(_, _, _)
interpolate_value(value, lookup, resolving) ==
  LET Replacement(p) ==
        IF ~p.ref THEN Ok(<<p>>)
        ELSE IF p.name \in resolving THEN Err("CircularVariableReference")
        ELSE IF p.name \in DOMAIN lookup
             THEN interpolate_value(lookup[p.name], lookup, resolving \cup {p.name})
        ELSE IF p.name \in DOMAIN Environment THEN Ok(Environment[p.name])
        ELSE Err("UnresolvedVariable")
      Step(done, p) ==
        IF Failed(done) THEN done
        ELSE LET r == Replacement(p)
             IN  IF Failed(r) THEN r ELSE Ok(done.ok \o r.ok)
  IN  FoldLeft(Step, Ok(<<>>), value)

\* The first key that fails decides the error; which one is not modelled.
interpolate_map(map, lookup) ==
  LET Result(k) == interpolate_value(map[k], lookup, {})
      bad == {k \in DOMAIN map : Failed(Result(k))}
  IN  IF bad # {} THEN Result(CHOOSE k \in bad : TRUE)
      ELSE Ok([k \in DOMAIN map |-> Result(k).ok])

\* The keys of b come over those of a.
Over(b, a) == b @@ a

\* Faulty variant: the section just read is not cleared.
flush_leaking(doc) ==
  [doc EXCEPT !.default = IF doc.in_default = "default" THEN Over(doc.current, @) ELSE @,
              !.sessions = IF doc.in_default = "session" /\ doc.current # NoKeys
                           THEN Append(@, doc.current) ELSE @]

\* What stands before the first header and an empty [SESSION] are dropped.
flush_section(doc) ==
  [doc EXCEPT !.default = IF doc.in_default = "default" THEN Over(doc.current, @) ELSE @,
              !.sessions = IF doc.in_default = "session" /\ doc.current # NoKeys
                           THEN Append(@, doc.current) ELSE @,
              !.current = NoKeys]

\* Every header but DEFAULT begins a session.
ReadLine(doc, line) ==
  CASE doc.failed \/ line.kind = "malformed" -> [doc EXCEPT !.failed = TRUE]
    [] line.kind = "section" ->
         [flush_section(doc) EXCEPT
            !.in_default = IF line.name = "DEFAULT" THEN "default" ELSE "session"]
    [] line.kind = "pair" -> [doc EXCEPT !.current = Over(line.name :> line.value, @)]

ReadLines(lines) ==
  flush_section(FoldLeft(ReadLine,
    [in_default |-> "none", current |-> NoKeys, default |-> NoKeys, sessions |-> <<>>,
     failed |-> FALSE], lines))

\* An absent key and an empty value are the same.
identity_of(map) == [k \in IdentityKeys |-> IF k \in DOMAIN map THEN map[k] ELSE <<>>]

check_duplicate_sessions(sessions) ==
  \A i, j \in DOMAIN sessions :
    i < j => identity_of(sessions[i]) # identity_of(sessions[j])

\* Defaults are resolved among themselves first, then each session over them.
parse(lines) ==
  LET doc == ReadLines(lines)
      default == interpolate_map(doc.default, doc.default)
      Session(s) == LET merged == Over(s, default.ok) IN interpolate_map(merged, merged)
      bad == {i \in DOMAIN doc.sessions : Failed(Session(doc.sessions[i]))}
      sessions == [i \in DOMAIN doc.sessions |-> Session(doc.sessions[i]).ok]
  IN  CASE doc.failed -> Err("Malformed")
        [] ~doc.failed /\ Failed(default) -> default
        [] ~doc.failed /\ ~Failed(default) /\ bad # {} ->
             Session(doc.sessions[CHOOSE i \in bad : TRUE])
        [] OTHER -> IF check_duplicate_sessions(sessions)
                    THEN Ok([default |-> default.ok, sessions |-> sessions])
                    ELSE Err("DuplicateSession")

-----------------------------------------------------------------------------
(***************************************************************************)
(* Properties of one document, a sequence of lines.                        *)
(***************************************************************************)

\* The names a value mentions, directly and through other keys.
Mentions(value) == {value[i].name : i \in {j \in DOMAIN value : value[j].ref}}
RECURSIVE Reached(_, _)
Reached(names, lookup) ==
  LET more == names \cup UNION {Mentions(lookup[n]) : n \in names \cap DOMAIN lookup}
  IN  IF more = names THEN names ELSE Reached(more, lookup)
Sound(value, lookup) ==
  LET all == Reached(Mentions(value), lookup)
  IN  /\ all \subseteq DOMAIN lookup \cup DOMAIN Environment
      /\ \A n \in all \cap DOMAIN lookup : n \notin Reached(Mentions(lookup[n]), lookup)

\* NEW-46: a value is refused exactly when a name it depends on, however far
\* down, is unknown or depends on itself; otherwise no reference is left in it.
ReferencesResolved(lines) ==
  LET default == ReadLines(lines).default
      r == interpolate_map(default, default)
  IN  /\ Failed(r) <=> \E k \in DOMAIN default : ~Sound(default[k], default)
      /\ ~Failed(r) => \A k \in DOMAIN r.ok : Mentions(r.ok[k]) = {}

\* The lines of one kind of section, each under its header.
LinesOf(lines, Wanted(_)) ==
  LET Header(i) == LET h == {j \in 1..i : lines[j].kind = "section"}
                   IN  IF h = {} THEN "" ELSE lines[CHOOSE j \in h : \A k \in h : k <= j].name
      kept == {i \in DOMAIN lines : Wanted(Header(i))}
  IN  [n \in 1..Cardinality(kept) |->
         lines[CHOOSE i \in kept : Cardinality({j \in kept : j < i}) = n - 1]]

\* What a session means depends on [DEFAULT] and on its own lines only: not on
\* where [DEFAULT] stands, and not on the other sessions.
SessionsStandAlone(lines) ==
  LET r == parse(lines)
      defaults == LinesOf(lines, LAMBDA h : h = "DEFAULT")
      sessions == ReadLines(lines).sessions
      Alone(s) == parse(defaults \o <<Section("SESSION")>> \o
                        SetToSeq({Pair(k, s[k]) : k \in DOMAIN s}))
  IN  ~Failed(r) => \A i \in DOMAIN sessions :
        Alone(sessions[i]) = Ok([default |-> r.ok.default, sessions |-> <<r.ok.sessions[i]>>])

\* NEW-129: no two sessions of an accepted document have one identity, after
\* defaults and references, so the registry that routes Logons has one of each.
IdentitiesDistinct(lines) ==
  LET r == parse(lines)
  IN  ~Failed(r) => Cardinality({identity_of(r.ok.sessions[i]) : i \in DOMAIN r.ok.sessions})
                      = Len(r.ok.sessions)
=============================================================================
