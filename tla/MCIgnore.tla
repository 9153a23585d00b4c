------------------------------ MODULE MCIgnore ------------------------------
(***************************************************************************)
(* What a path meets before it is backed up, in one instance: the list of rules *)
(* that decides whether it is ignored, the matcher that list calls, and the    *)
(* conversions of its name.  They share no state: the matcher and the          *)
(* conversions depend on their arguments only, and IgnoreList takes the        *)
(* answers of the matcher from Matches.  So one of the three works in a         *)
(* behaviour, and the matcher and the conversions have inputs far beyond those  *)
(* of the list.                                                            *)
(***************************************************************************)
EXTENDS MCIgnoreList, MCGlobMatch, MCUtfConv

VARIABLE part   \* that works

ASSUME InputsAssumption == \A in \in Inputs : Proper(in[1], in[2])

-----------------------------------------------------------------------------
(* A part that does not work: a list that nobody asks or edits, nothing to match *)
(* and no name to convert.                                                  *)
NoCalls ==
  /\ Init /\ content = <<>> /\ filetime = mtime
  /\ path = [name |-> "x", isdir |-> FALSE]
NoMatch ==
  /\ text = <<>> /\ glob = <<>> /\ i = 1 /\ j = 1
  /\ text1 = 0 /\ glob1 = 0 /\ text2 = 0 /\ glob2 = 0 /\ result = "yes"
NoName ==
  /\ loop = "done" /\ u16 = <<>> /\ u8 = <<0>> /\ back = <<>> /\ at = 1 /\ need = 0

MCInit ==
  \/ part = "list" /\ Init /\ NoMatch /\ NoName
  \/ part = "matcher" /\ MatchInit /\ NoCalls /\ NoName
  \/ part = "conversion" /\ ConvInit /\ NoCalls /\ NoMatch

Matcher == part = "matcher" /\ MatchNext /\ UNCHANGED <<part, vars, convvars>>

MCNext ==
  \/ part = "list" /\ Next /\ UNCHANGED <<part, call, convvars>>
  \/ Matcher
  \/ part = "conversion" /\ ConvNext /\ UNCHANGED <<part, vars, call>>

everything == <<part, vars, call, convvars>>
MCSpec == MCInit /\ [][MCNext]_everything /\ WF_everything(Matcher)
=============================================================================
