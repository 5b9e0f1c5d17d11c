------------------------------ MODULE NameGlob ------------------------------
(***************************************************************************)
(* The registry's name matcher (registry.py name_glob_match), step by step *)
(* as its loop runs, and the test that tells which dispatch patterns can   *)
(* reach a name typed without an authority                                 *)
(* (_pattern_reaches_unscoped_name).  Characters are model strings; ".eth" *)
(* stands for the one enumerated suffix and is a single character here.    *)
(***************************************************************************)
EXTENDS Integers, Sequences

CONSTANTS Letters,     \* the characters of names
          MaxPattern,  \* the longest pattern and name
          MaxName

VARIABLES pattern, name,
          atPattern, atName,   \* the two pointers, counted from 1
          star,      \* the last "*" passed in the pattern, or 0
          resume,    \* where in the name the match goes on when it gives way
          verdict    \* "open", "yes" or "no"

globVars == <<pattern, name, atPattern, atName, star, resume, verdict>>

(* Names hold no "*": the loop matches one with itself where the pattern's *)
(* may stand for more.                                                     *)
GlobAssumption == "*" \notin Letters /\ MaxPattern \in Nat /\ MaxName \in Nat

Words(letters, most) == UNION {[1 .. k -> letters] : k \in 0 .. most}

Begin ==
    /\ pattern \in Words(Letters \cup {"*"}, MaxPattern)
    /\ name \in Words(Letters, MaxName)
    /\ atPattern = 1 /\ atName = 1 /\ star = 0 /\ resume = 1
    /\ verdict = "open"

AtStar == atPattern <= Len(pattern) /\ pattern[atPattern] = "*"
AtMatch == atPattern <= Len(pattern) /\ atName <= Len(name) /\ pattern[atPattern] = name[atName]

Literal ==
    /\ atName <= Len(name) /\ AtMatch
    /\ atPattern' = atPattern + 1 /\ atName' = atName + 1
    /\ UNCHANGED <<star, resume, verdict>>

PassStar ==
    /\ atName <= Len(name) /\ ~AtMatch /\ AtStar
    /\ star' = atPattern /\ resume' = atName /\ atPattern' = atPattern + 1
    /\ UNCHANGED <<atName, verdict>>

(* The last star takes one more character and the rest starts over. *)
BackMutant == resume' = resume + 1 /\ atName' = atName
Back == resume' = resume + 1 /\ atName' = resume + 1

GiveWay ==
    /\ atName <= Len(name) /\ ~AtMatch /\ ~AtStar /\ star > 0
    /\ atPattern' = star + 1
    /\ Back
    /\ UNCHANGED <<star, verdict>>

Fail ==
    /\ atName <= Len(name) /\ ~AtMatch /\ ~AtStar /\ star = 0
    /\ verdict' = "no"
    /\ UNCHANGED <<atPattern, atName, star, resume>>

(* The name is used up: only stars may be left. *)
Finish ==
    /\ atName > Len(name)
    /\ verdict' = IF \A i \in atPattern .. Len(pattern) : pattern[i] = "*" THEN "yes" ELSE "no"
    /\ UNCHANGED <<atPattern, atName, star, resume>>

GlobStep ==
    /\ verdict = "open"
    /\ Literal \/ PassStar \/ GiveWay \/ Fail \/ Finish
    /\ UNCHANGED <<pattern, name>>

GlobSpec == Begin /\ [][GlobStep]_globVars

---------------------------------------------------------------------------
Has(w, c) == \E i \in 1 .. Len(w) : w[i] = c
EndsIn(w, c) == w # <<>> /\ w[Len(w)] = c

(* Can the pattern match a name without an authority? *)
ReachesUnscoped(w) ==
    /\ Has(w, "*")
    /\ ~Has(w, "@")
    /\ ~\E i \in 2 .. Len(w) :
           /\ w[i] = "*" /\ w[i - 1] = ":"
           /\ \A j \in 1 .. i - 1 : w[j] # "*"
    /\ ~EndsIn(w, ".eth")

Scoped(w) == Has(w, "@") \/ Has(w, ":") \/ EndsIn(w, ".eth")

(* What a pattern means: the name is cut into one piece for each of its    *)
(* characters, any piece for a star and the character itself otherwise.    *)
Means(w, s) ==
    \E cut \in [0 .. Len(w) -> 0 .. Len(s)] :
        /\ cut[0] = 0 /\ cut[Len(w)] = Len(s)
        /\ \A i \in 1 .. Len(w) :
              IF w[i] = "*" THEN cut[i] >= cut[i - 1]
              ELSE cut[i] = cut[i - 1] + 1 /\ s[cut[i]] = w[i]

(* The loop decides what the pattern means, and a wildcard pattern the     *)
(* configuration check calls narrow matches only names that carry an       *)
(* authority, a scheme or the enumerated suffix.                           *)
GlobIsRight ==
    verdict # "open" =>
        /\ (verdict = "yes") <=> Means(pattern, name)
        /\ (verdict = "yes" /\ Has(pattern, "*") /\ ~ReachesUnscoped(pattern)) => Scoped(name)
=============================================================================
