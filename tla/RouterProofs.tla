----------------------------- MODULE RouterProofs -----------------------------
(***************************************************************************)
(* What the operators of Router and Session return, for any rules, regions *)
(* and requests: lemmas for the proofs about the handlers.                 *)
(***************************************************************************)
EXTENDS Router, FiniteSetTheorems, SequenceTheorems, WellFoundedInduction, TLAPS

(* Min of a set of naturals that is not empty is its least element.        *)
LEMMA LeastOf ==
    ASSUME NEW S \in SUBSET Nat, S # {}
    PROVE  Min(S) \in S /\ \A y \in S : Min(S) <= y
<1> DEFINE R == OpToRel(<, Nat)
<1>1. PICK x \in S : \A y \in S : <<y, x>> \notin R
    <2>1. IsWellFoundedOn(R, Nat)
        BY NatLessThanWellFounded
    <2> HIDE DEF R
    <2> QED
        BY <2>1, WFMin
<1>2. \A y \in S : x <= y
    <2>1. \A y \in S : ~(y < x)
        BY <1>1 DEF OpToRel
    <2> QED
        BY <2>1
<1> QED
    BY <1>2 DEF Min

-----------------------------------------------------------------------------
(* What Rules.Sort returns, in whatever order the rules came and however   *)
(* it breaks ties: every rule once, none before one it should come after.  *)
LEMMA SortIsComplete ==
    ASSUME NEW rules, IsFiniteSet(rules), NEW s \in Sorts(rules)
    PROVE  /\ DOMAIN s \subseteq Nat
           /\ \A i \in DOMAIN s : s[i] \in rules
           /\ \A rule \in rules : \E i \in DOMAIN s : s[i] = rule
           /\ \A i, j \in DOMAIN s : i < j => ~Less(s[j], s[i])
<1> DEFINE D == 1..Cardinality(rules)
<1>1. Cardinality(rules) \in Nat
    BY FS_CardinalityType
<1>2. /\ s \in [D -> rules]
      /\ \A i, j \in D : i # j => s[i] # s[j]
      /\ \A i, j \in DOMAIN s : i < j => ~Less(s[j], s[i])
    BY DEF Sorts, SetToSeqs
<1>3. Cardinality(D) = Cardinality(rules)
    BY <1>1, FS_Interval
<1>4. s \in Injection(D, rules)
    BY <1>2 DEF Injection, IsInjective
<1> HIDE DEF D
<1>5. s \in Surjection(D, rules)
    BY <1>3, <1>4, FS_Injection
<1>6. \A rule \in rules : \E i \in D : s[i] = rule
    BY <1>5 DEF Surjection
<1> USE DEF D
<1> QED
    BY <1>1, <1>2, <1>6

(* Rules may be sorted, also when there are none.                          *)
LEMMA SortOfNone == <<>> \in Sorts({})
<1>1. 1..Cardinality({}) = {}
    BY FS_EmptySet
<1>2. <<>> \in [{} -> {}]
    OBVIOUS
<1> QED
    BY <1>1, <1>2 DEF Sorts, SetToSeqs

(* Route without a forced route, whatever the dice say: a rule of the      *)
(* configuration that is tried no later than any rule that matches for     *)
(* sure, or nothing when there is no such rule.                            *)
THEOREM FirstMatchIsBest ==
    ASSUME NEW rules, IsFiniteSet(rules), NEW order \in Sorts(rules),
           NEW q, NEW hob, NEW session, NEW rolls \in [DOMAIN order -> Rolls],
           ForceRoute(q.force) = Nil
    PROVE  /\ Route(order, q, hob, session, rolls) \in rules \cup {Nil}
           /\ \A rule \in rules :
                  (\A roll \in Rolls : Matches(rule, q, hob, session, roll))
                  => /\ Route(order, q, hob, session, rolls) \in rules
                     /\ \/ Route(order, q, hob, session, rolls) = rule
                        \/ ~Less(rule, Route(order, q, hob, session, rolls))
<1> DEFINE matching == {i \in DOMAIN order :
                          Matches(order[i], q, hob, session, rolls[i])}
           best == Route(order, q, hob, session, rolls)
<1>1. best = IF matching = {} THEN Nil ELSE order[Min(matching)]
    BY DEF Route
<1>2. DOMAIN order \subseteq Nat
    BY SortIsComplete
<1>3. matching # {} => Min(matching) \in matching
                       /\ \A i \in matching : Min(matching) <= i
    BY <1>2, LeastOf
<1>4. matching # {} => best \in rules
    BY <1>1, <1>3, SortIsComplete
<1>5. ASSUME NEW rule \in rules,
             \A roll \in Rolls : Matches(rule, q, hob, session, roll)
      PROVE  best \in rules /\ (best = rule \/ ~Less(rule, best))
    <2>1. PICK i \in DOMAIN order : order[i] = rule
        BY SortIsComplete
    <2>2. i \in matching
        BY <1>5, <2>1
    <2>3. best = order[Min(matching)] /\ Min(matching) \in matching
          /\ Min(matching) <= i
        BY <1>1, <1>3, <2>2
    <2>4. Min(matching) = i \/ ~Less(order[i], order[Min(matching)])
        <3>1. \A m, n \in DOMAIN order : m < n => ~Less(order[n], order[m])
            BY SortIsComplete
        <3>2. Min(matching) \in DOMAIN order
            BY <2>3
        <3> HIDE DEF matching, best
        <3>3. Min(matching) < i \/ Min(matching) = i
            BY <1>2, <2>3, <3>2
        <3> QED
            BY <3>1, <3>2, <3>3, Zenon
    <2> HIDE DEF matching, best
    <2> QED
        BY <1>4, <2>1, <2>2, <2>3, <2>4
<1> HIDE DEF best
<1>6. best \in rules \cup {Nil}
    BY <1>1, <1>4
<1> USE DEF best
<1> QED
    BY <1>5, <1>6

-----------------------------------------------------------------------------
(* FirstGiven finds something unless everything is blank.                  *)
LEMMA FirstGivenFinds ==
    ASSUME NEW values, DOMAIN values \subseteq Nat
    PROVE  \/ /\ \A i \in DOMAIN values : values[i] = ""
              /\ FirstGiven(values) = ""
           \/ /\ FirstGiven(values) # ""
              /\ \E i \in DOMAIN values : FirstGiven(values) = values[i]
<1> DEFINE given == {i \in DOMAIN values : values[i] # ""}
<1>1. CASE given = {}
    BY <1>1 DEF FirstGiven
<1>2. CASE given # {}
    <2>1. Min(given) \in given
        BY <1>2, LeastOf
    <2> QED
        BY <1>2, <2>1 DEF FirstGiven
<1> QED
    BY <1>1, <1>2

(* When the headers give one session id, whoever asks after the form was   *)
(* parsed, or before, gets one answer.                                     *)
LEMMA OneAnswer ==
    ASSUME NEW q, NEW parsed \in BOOLEAN, Cardinality(HeaderSessions(q)) = 1
    PROVE  \E id : SessionIds(q, parsed) = {id}
<1>1. IsFiniteSet(HeaderSessions(q))
    <2> DEFINE both == {XApiToken(q), Authorization(q)}
    <2>1. IsFiniteSet({""}) /\ IsFiniteSet({XApiToken(q)})
        BY FS_Singleton
    <2>2. IsFiniteSet({XApiToken(q)} \cup {Authorization(q)})
        BY <2>1, FS_AddElement
    <2>3. both = {XApiToken(q)} \cup {Authorization(q)}
        OBVIOUS
    <2>4. IsFiniteSet(both)
        BY <2>2, <2>3
    <2> HIDE DEF both
    <2>5. both \ {""} \in SUBSET both
        OBVIOUS
    <2>6. IsFiniteSet(both \ {""})
        BY <2>4, <2>5, FS_Subset
    <2>7. HeaderSessions(q) = {""} \/ HeaderSessions(q) = both \ {""}
        BY DEF HeaderSessions, both
    <2> QED
        BY <2>1, <2>6, <2>7
<1>2. \E id : HeaderSessions(q) = {id}
    BY <1>1, FS_Singleton
<1> QED
    BY <1>2 DEF SessionIds

(* What the query string and the form hold, one after the other.           *)
LEMMA TwoAndTwo ==
    ASSUME NEW a, NEW b, NEW c, NEW d
    PROVE  <<a, b>> \o <<c, d>> = <<a, b, c, d>>
<1> DEFINE s == <<a, b>>
           t == <<c, d>>
           T == {a, b, c, d}
           u == s \o t
<1>1. /\ s \in Seq(T) /\ Len(s) = 2 /\ s[1] = a /\ s[2] = b
      /\ t \in Seq(T) /\ Len(t) = 2 /\ t[1] = c /\ t[2] = d
    OBVIOUS
<1> HIDE DEF s, t, T
<1>2. /\ s \o t \in Seq(T)
      /\ Len(s \o t) = Len(s) + Len(t)
      /\ \A i \in 1..Len(s) + Len(t) :
             (s \o t)[i] = IF i <= Len(s) THEN s[i] ELSE t[i - Len(s)]
    BY <1>1, ConcatProperties, Zenon
<1>3. /\ u \in Seq(T) /\ Len(u) = 4
      /\ \A i \in 1..4 : u[i] = IF i <= 2 THEN s[i] ELSE t[i - 2]
    BY <1>1, <1>2
<1> HIDE DEF u
<1>4. u[1] = a /\ u[2] = b /\ u[3] = c /\ u[4] = d
    BY <1>1, <1>3
<1>5. u = <<a, b, c, d>>
    BY <1>3, <1>4
<1> QED
    BY <1>5 DEF s, t, u

LEMMA TwoAndNone ==
    ASSUME NEW a, NEW b
    PROVE  <<a, b>> \o <<>> = <<a, b>>
OBVIOUS

(* Blank values at the end make no difference.                             *)
LEMMA BlankTail ==
    ASSUME NEW a, NEW b
    PROVE  FirstGiven(<<a, b>>) = FirstGiven(<<a, b, "", "">>)
<1> DEFINE short == <<a, b>>
           long == <<a, b, "", "">>
           early == {i \in DOMAIN short : short[i] # ""}
           all == {i \in DOMAIN long : long[i] # ""}
<1>1. /\ DOMAIN short = 1..2 /\ DOMAIN long = 1..4
      /\ \A i \in 1..2 : short[i] = long[i]
      /\ long[3] = "" /\ long[4] = ""
    OBVIOUS
<1> HIDE DEF short, long
<1>2. early = all /\ early \subseteq 1..2
    <2>1. 1..4 = (1..2) \cup {3, 4}
        OBVIOUS
    <2>2. \A i : i \in early <=> i \in 1..2 /\ short[i] # ""
        BY <1>1, Zenon
    <2>3. \A i : i \in all <=> i \in 1..4 /\ long[i] # ""
        BY <1>1, Zenon
    <2> HIDE DEF early, all
    <2>4. \A i : i \in early <=> i \in all
        BY <1>1, <2>1, <2>2, <2>3, Zenon
    <2> QED
        BY <2>2, <2>4, Zenon
<1>3. FirstGiven(short) = FirstGiven(long)
    <2>1. CASE early = {}
        BY <1>2, <2>1 DEF FirstGiven
    <2>2. CASE early # {}
        <3> HIDE DEF early, all
        <3>1. early \in SUBSET Nat
            BY <1>2
        <3>2. Min(early) \in early
            BY <2>2, <3>1, LeastOf
        <3>3. FirstGiven(short) = short[Min(early)]
              /\ FirstGiven(long) = long[Min(all)]
            BY <1>2, <2>2 DEF FirstGiven, early, all
        <3> QED
            BY <1>1, <1>2, <3>2, <3>3
    <2> QED
        BY <2>1, <2>2
<1> QED
    BY <1>3 DEF short, long

(* A session id that is not in the body is found before the form is parsed *)
(* like after it.                                                          *)
LEMMA BodyWithoutSession ==
    ASSUME NEW q, q.form.session_id = "", q.form.api_token = ""
    PROVE  SessionIds(q, FALSE) = SessionIds(q, TRUE)
<1> DEFINE short == <<q.query.session_id, q.query.api_token>>
           long == <<q.query.session_id, q.query.api_token, "", "">>
<1>1. short \o <<>> = short
    BY TwoAndNone, Zenon
<1>2. short \o <<"", "">> = long
    <2>1. ASSUME NEW a, NEW b PROVE <<a, b>> \o <<"", "">> = <<a, b, "", "">>
        BY TwoAndTwo, Zenon
    <2> QED
        BY <2>1, Zenon
<1>3. FirstGiven(short) = FirstGiven(long)
    BY BlankTail, Zenon
<1>4. SessionIds(q, FALSE) = IF FirstGiven(short) # "" THEN {FirstGiven(short)}
                             ELSE HeaderSessions(q)
    <2> HIDE DEF short
    <2>1. SessionIds(q, FALSE) =
              IF FirstGiven(short \o <<>>) # "" THEN {FirstGiven(short \o <<>>)}
              ELSE HeaderSessions(q)
        BY Zenon DEF SessionIds, short
    <2> QED
        BY <1>1, <2>1
<1>5. SessionIds(q, TRUE) = IF FirstGiven(long) # "" THEN {FirstGiven(long)}
                            ELSE HeaderSessions(q)
    <2> DEFINE body == <<q.form.session_id, q.form.api_token>>
    <2>1. body = <<"", "">>
        BY Zenon
    <2> HIDE DEF short, long, body
    <2>2. SessionIds(q, TRUE) =
              IF FirstGiven(short \o body) # "" THEN {FirstGiven(short \o body)}
              ELSE HeaderSessions(q)
        BY Zenon DEF SessionIds, short, body
    <2> QED
        BY <1>2, <2>1, <2>2
<1> HIDE DEF short, long
<1> QED
    BY <1>3, <1>4, <1>5

(* The city that Hob leaves in the request is the one it returned: asking  *)
(* again gives the same.                                                   *)
LEMMA HobSettles ==
    ASSUME NEW city, NEW q
    PROVE  Hob(SetHob(city, q), q) = Hob(city, q)
<1>1. CASE city = "" /\ Extracted(q, "hob") = ""
    BY <1>1 DEF Hob, SetHob
<1>2. CASE ~(city = "" /\ Extracted(q, "hob") = "")
    BY <1>2 DEF Hob, SetHob
<1> QED
    BY <1>1, <1>2

-----------------------------------------------------------------------------
(* A city always has a home among the regions ...                          *)
LEMMA HomeExists ==
    ASSUME NEW c, NEW hob, RegionTable(c)
    PROVE  \E id \in DOMAIN c.regions : HomeRegion(c, hob) = c.regions[id]
<1> DEFINE found == RegionAt(c, Find(c.hobRegions, hob, 0))
<1>1. CASE found = Nil
    <2>1. Min(DOMAIN c.regions) \in DOMAIN c.regions
        BY LeastOf DEF RegionTable
    <2> QED
        BY <1>1, <2>1 DEF HomeRegion, RegionTable
<1>2. CASE found # Nil
    <2>1. HomeRegion(c, hob) = found
        BY <1>2 DEF HomeRegion
    <2> QED
        BY <1>2, <2>1 DEF RegionAt
<1> QED
    BY <1>1, <1>2

(* ... and Region gives it one, which is online if the home is or any of   *)
(* the home's failovers.                                                   *)
THEOREM RegionExists ==
    ASSUME NEW c, NEW hob, RegionTable(c)
    PROVE  \E id \in DOMAIN c.regions :
               /\ Region(c, hob) = c.regions[id]
               /\ \/ IsOnline(HomeRegion(c, hob))
                  \/ \E i \in DOMAIN HomeRegion(c, hob).failover :
                         IsOnline(RegionAt(c, HomeRegion(c, hob).failover[i]))
                  => IsOnline(c.regions[id])
<1> DEFINE home == HomeRegion(c, hob)
           online == {i \in DOMAIN home.failover :
                         IsOnline(RegionAt(c, home.failover[i]))}
<1>1. PICK h \in DOMAIN c.regions : home = c.regions[h]
    BY HomeExists
<1>2. home # Nil /\ DOMAIN home.failover \subseteq Nat
    BY <1>1 DEF RegionTable
<1>3. CASE IsOnline(home) \/ online = {}
    <2>1. Region(c, hob) = home
        BY <1>3 DEF Region
    <2> QED
        BY <1>1, <1>3, <2>1
<1>4. CASE ~IsOnline(home) /\ online # {}
    <2>1. Min(online) \in online
        BY <1>2, <1>4, LeastOf
    <2>2. Region(c, hob) = RegionAt(c, home.failover[Min(online)])
        BY <1>2, <1>4 DEF Region
    <2>3. IsOnline(Region(c, hob))
        BY <2>1, <2>2
    <2>4. home.failover[Min(online)] \in DOMAIN c.regions
        BY <2>2, <2>3 DEF RegionAt, IsOnline
    <2> QED
        BY <2>2, <2>3, <2>4 DEF RegionAt
<1> QED
    BY <1>3, <1>4
===============================================================================
