------------------------------ MODULE IgnoreList ------------------------------
(***************************************************************************)
(* Class IgnoreList (AresqIgnore.cpp): the rules of the ignore file, when they *)
(* are read again, and which of them decides about a path.  The user edits,   *)
(* removes and brings back the file at any time, also between the look at its  *)
(* time and the reading of it.                                              *)
(*                                                                         *)
(* A rule is a line of the file that is neither blank nor a comment; whether   *)
(* its pattern matches a path is the subject of GlobMatch.                    *)
(***************************************************************************)
EXTENDS Integers, Sequences, SequencesExt

CONSTANTS
  Contents,     \* what the ignore file may hold: sequences of lines
  Paths,        \* paths asked about, each with whether it is a directory
  Matches,      \* the pairs of a pattern and a path that match
  Minute,       \* 60 seconds
  EditGap,      \* the least time between two edits
  FirstTime, LastTime   \* bounds of the clock

ASSUME TimesAssumption ==
  /\ FirstTime \in Nat /\ LastTime \in Nat /\ Minute \in Nat /\ EditGap \in Nat
  /\ FirstTime > Minute

VARIABLES
  now,
  there, content, mtime,       \* the ignore file
  rules, filetime, updatetime, \* patterns and the other fields of IgnoreList
  pc, path, seen,              \* of isignore and update; seen is the file's time
  verdict                      \* what isignore returned

file == <<there, content, mtime>>
list == <<rules, filetime, updatetime>>
vars == <<now, file, list, pc, path, seen, verdict>>

(* The rules of the lines, in their order. *)
Rules(lines) ==
  LET from[k \in 1 .. Len(lines) + 1] ==
        IF k > Len(lines) THEN <<>>
        ELSE (IF lines[k].kind = "rule" THEN <<lines[k]>> ELSE <<>>) \o from[k + 1]
  IN from[1]

Line == [kind : {"rule", "comment"}, pat : {r[1] : r \in Matches}, neg : BOOLEAN, dir : BOOLEAN]
ASSUME ContentsAssumption == \A c \in Contents : c \in Seq(Line)

TypeOK ==
  /\ now \in FirstTime .. LastTime
  /\ there \in BOOLEAN /\ content \in Contents /\ mtime \in FirstTime .. LastTime
  /\ rules \in {Rules(c) : c \in Contents} \cup {<<>>}
  /\ filetime \in {0} \cup FirstTime .. LastTime /\ updatetime \in FirstTime .. LastTime
  /\ pc \in {"idle", "look", "read", "answer"} /\ path \in Paths
  /\ seen \in FirstTime .. LastTime /\ verdict \in {-1, 0, 1}

(* load has read the file, or could not open it. *)
Init ==
  /\ now = FirstTime
  /\ there = TRUE /\ content \in Contents /\ mtime = FirstTime
  /\ \/ rules = Rules(content) /\ filetime = mtime
     \/ rules = <<>> /\ filetime = 0
  /\ updatetime = FirstTime
  /\ pc = "idle" /\ path \in Paths /\ seen = mtime /\ verdict = 0

-----------------------------------------------------------------------------
(* The user and the clock *)

Edit ==
  /\ now >= mtime + EditGap
  /\ content' \in Contents \ {content}
  /\ there' = TRUE /\ mtime' = now
  /\ UNCHANGED <<now, list, pc, path, seen, verdict>>

(* Away, and perhaps back as it was. *)
MoveAway == there /\ there' = FALSE /\ UNCHANGED <<now, content, mtime, list, pc, path, seen, verdict>>
MoveBack == ~there /\ there' = TRUE /\ UNCHANGED <<now, content, mtime, list, pc, path, seen, verdict>>

Tick == now < LastTime /\ now' = now + 1 /\ UNCHANGED <<file, list, pc, path, seen, verdict>>

-----------------------------------------------------------------------------
(* isignore: more than a minute after the last call the file is looked at.      *)

Ask ==
  /\ pc = "idle"
  /\ path' \in Paths
  /\ pc' = IF now > updatetime + Minute \/ now < updatetime - Minute THEN "look" ELSE "answer"
  /\ UNCHANGED <<now, file, list, seen, verdict>>

Near(s, t) == s - 1 <= t /\ s + 1 >= t

LookGone ==
  /\ pc = "look" /\ ~there
  /\ rules' = <<>>
  /\ pc' = "answer"
  /\ UNCHANGED <<now, file, filetime, updatetime, path, seen, verdict>>

Look ==
  /\ pc = "look" /\ there
  /\ IF Near(mtime, filetime) THEN pc' = "answer" /\ UNCHANGED <<seen, updatetime>>
     ELSE pc' = "read" /\ seen' = mtime /\ updatetime' = now
  /\ UNCHANGED <<now, file, rules, filetime, path, verdict>>

(* Faulty: records the time of the reading instead of the time of the file. *)
ReadAtNow ==
  /\ pc = "read"
  /\ \/ UNCHANGED <<rules, filetime>>
     \/ there /\ rules' = Rules(content) /\ filetime' = now
  /\ pc' = "answer"
  /\ UNCHANGED <<now, file, updatetime, path, seen, verdict>>

(* The file cannot be opened, or is read whole. *)
Read ==
  /\ pc = "read"
  /\ \/ UNCHANGED <<rules, filetime>>
     \/ there /\ rules' = Rules(content) /\ filetime' = seen
  /\ pc' = "answer"
  /\ UNCHANGED <<now, file, updatetime, path, seen, verdict>>

Applies(rule) == (rule.dir => path.isdir) /\ <<rule.pat, path.name>> \in Matches

(* Faulty: the first rule that applies decides. *)
VerdictOfFirst ==
  LET hits == {k \in DOMAIN rules : Applies(rules[k])}
  IN IF hits = {} THEN -1
     ELSE IF rules[CHOOSE k \in hits : \A l \in hits : k <= l].neg THEN 0 ELSE 1

(* The last rule that applies decides. *)
Verdict ==
  LET last == SelectLastInSeq(rules, Applies)
  IN IF last = 0 THEN -1 ELSE IF rules[last].neg THEN 0 ELSE 1

Answer ==
  /\ pc = "answer"
  /\ verdict' = Verdict
  /\ updatetime' = now
  /\ pc' = "idle"
  /\ UNCHANGED <<now, file, rules, filetime, path, seen>>

IsIgnore == Ask \/ LookGone \/ Look \/ Read \/ Answer
User == Edit \/ MoveAway \/ MoveBack

Next == IsIgnore \/ User \/ Tick

Spec == Init /\ [][Next]_vars

-----------------------------------------------------------------------------
(* No edit is lost for good: when the rules are not those of the file, its time  *)
(* tells that it must be read again, however the edits fell between the look    *)
(* and the reading.  A look while the file was away leaves no rules.            *)
NoEditLost ==
  pc = "idle" /\ there /\ rules # Rules(content) => ~Near(mtime, filetime) \/ rules = <<>>

(* A path is ignored by the rules in force exactly if some rule that is not      *)
(* negated matches it and no later, negated one takes it back.                  *)
LaterRulesWin ==
  [][pc = "answer" /\ pc' = "idle" =>
       ((verdict' > 0) = (\E k \in DOMAIN rules :
                            /\ Applies(rules[k]) /\ ~rules[k].neg
                            /\ \A l \in k + 1 .. Len(rules) : Applies(rules[l]) => ~rules[l].neg))]_vars

(* The comment of isignore: "<0: keep and stop testing, 0: not ignore but         *)
(* continue testing if there are more lists".  A rule that keeps a path says so.  *)
KeepingStops ==
  [][pc = "answer" /\ pc' = "idle" =>
       (verdict' < 0 => \E k \in DOMAIN rules : Applies(rules[k]) /\ rules[k].neg)]_vars
=============================================================================
