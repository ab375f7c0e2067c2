----------------------------- MODULE ProfilesProofs -----------------------------
(***************************************************************************)
(* Names, links, limits and grants of passports, for any number of         *)
(* passports, profiles, names and requests and any limit.                  *)
(*                                                                         *)
(* StoreInv holds what the rows and the requests between two store calls   *)
(* say of each other: it makes the properties of names and of links        *)
(* inductive, and the other two parts rest on it.  LimitInv counts the     *)
(* handlers that are past the check of the limit with the profiles that    *)
(* are linked; GrantInv says who holds the mutex of a passport.            *)
(***************************************************************************)
EXTENDS Profiles, FiniteSetTheorems, TLAPS

--------------------------------------------------------------------------------
(***************************************************************************)
(* The order of links.                                                     *)
(***************************************************************************)
Of(R) == {f \in Profile : <<f, f>> \in R}

\* Its ends are linked, no two links are of one age, and of every choice of
\* links one is the oldest.
WellOrdered(R) ==
    /\ R \subseteq Profile \X Profile
    /\ IsFiniteSet(Of(R))
    /\ \A f, g \in Profile : <<f, g>> \in R => f \in Of(R) /\ g \in Of(R)
    /\ \A f, g \in Profile : <<f, g>> \in R /\ <<g, f>> \in R => f = g
    /\ \A T \in SUBSET Of(R) : T # {} => \E f \in T : \A g \in T : <<f, g>> \in R

LEMMA YoungestLinked ==
  ASSUME NEW R, WellOrdered(R), NEW f \in Profile, f \notin Of(R)
  PROVE  /\ Of(R \cup ((Of(R) \cup {f}) \X {f})) = Of(R) \cup {f}
         /\ WellOrdered(R \cup ((Of(R) \cup {f}) \X {f}))
<1> DEFINE Q == R \cup ((Of(R) \cup {f}) \X {f})
<1>1. \A g, h \in Profile :
         <<g, h>> \in Q <=> <<g, h>> \in R \/ (h = f /\ g \in Of(R) \cup {f})
  OBVIOUS
<1>2. Q \subseteq Profile \X Profile
  BY DEF WellOrdered, Of
<1> HIDE DEF Q
<1>3. \A g, h \in Profile : <<g, h>> \in R => g # f /\ h # f
  BY DEF WellOrdered
<1>4. Of(Q) = Of(R) \cup {f}
  BY <1>1 DEF Of
<1>5. IsFiniteSet(Of(Q))
  BY <1>4, FS_AddElement DEF WellOrdered
<1>6. \A g, h \in Profile : <<g, h>> \in Q => g \in Of(Q) /\ h \in Of(Q)
  BY <1>1, <1>4 DEF WellOrdered
<1>7. \A g, h \in Profile : <<g, h>> \in Q /\ <<h, g>> \in Q => g = h
  BY <1>1, <1>3 DEF WellOrdered
<1>8. ASSUME NEW T \in SUBSET Of(Q), T # {}
      PROVE  \E g \in T : \A h \in T : <<g, h>> \in Q
  <2>1. CASE T \ {f} = {}
    <3>1. f \in T /\ \A h \in T : h = f
      BY <1>8, <2>1
    <3>2. <<f, f>> \in Q
      BY <1>1
    <3> QED
      BY <3>1, <3>2
  <2>2. CASE T \ {f} # {}
    <3>1. T \ {f} \in SUBSET Of(R)
      BY <1>4
    <3>2. PICK g \in T \ {f} : \A h \in T \ {f} : <<g, h>> \in R
      BY <2>2, <3>1 DEF WellOrdered
    <3>3. g \in Of(R) /\ T \subseteq Profile
      BY <1>4, <3>1 DEF Of
    <3>4. \A h \in T : <<g, h>> \in Q
      BY <1>1, <3>2, <3>3 DEF Of
    <3> QED
      BY <3>2, <3>4
  <2> QED
    BY <2>1, <2>2
<1>9. WellOrdered(Q)
  BY <1>2, <1>5, <1>6, <1>7, <1>8 DEF WellOrdered
<1> QED
  BY <1>4, <1>9 DEF Q

LEMMA SomeUnlinked ==
  ASSUME NEW R, WellOrdered(R), NEW gone
  PROVE  /\ Of({e \in R : e[1] \notin gone /\ e[2] \notin gone}) = Of(R) \ gone
         /\ WellOrdered({e \in R : e[1] \notin gone /\ e[2] \notin gone})
<1> DEFINE Q == {e \in R : e[1] \notin gone /\ e[2] \notin gone}
<1>1. \A g, h \in Profile : <<g, h>> \in Q <=> <<g, h>> \in R /\ g \notin gone /\ h \notin gone
  OBVIOUS
<1>2. Q \subseteq Profile \X Profile
  BY DEF WellOrdered
<1> HIDE DEF Q
<1>3. Of(Q) = Of(R) \ gone
  BY <1>1 DEF Of
<1>4. IsFiniteSet(Of(Q))
  BY <1>3, FS_Subset DEF WellOrdered
<1>5. \A g, h \in Profile : <<g, h>> \in Q => g \in Of(Q) /\ h \in Of(Q)
  BY <1>1, <1>3 DEF WellOrdered
<1>6. \A g, h \in Profile : <<g, h>> \in Q /\ <<h, g>> \in Q => g = h
  BY <1>1 DEF WellOrdered
<1>7. ASSUME NEW T \in SUBSET Of(Q), T # {}
      PROVE  \E g \in T : \A h \in T : <<g, h>> \in Q
  <2>1. T \in SUBSET Of(R) /\ \A g \in T : g \in Profile /\ g \notin gone
    BY <1>3 DEF Of
  <2>2. PICK g \in T : \A h \in T : <<g, h>> \in R
    BY <1>7, <2>1 DEF WellOrdered
  <2> QED
    BY <1>1, <2>1, <2>2
<1>8. WellOrdered(Q)
  BY <1>2, <1>4, <1>5, <1>6, <1>7 DEF WellOrdered
<1> QED
  BY <1>3, <1>8 DEF Q

LEMMA OneLinked ==
  ASSUME NEW f \in Profile
  PROVE  Of({<<f, f>>}) = {f} /\ WellOrdered({<<f, f>>})
<1>1. Of({<<f, f>>}) = {f}
  BY DEF Of
<1>2. IsFiniteSet({f})
  BY FS_Singleton
<1> QED
  BY <1>1, <1>2 DEF WellOrdered

LEMMA NoneLinked == Of({}) = {} /\ WellOrdered({})
<1>1. Of({}) = {}
  BY DEF Of
<1>2. IsFiniteSet({})
  BY FS_EmptySet
<1> QED
  BY <1>1, <1>2 DEF WellOrdered

LEMMA OldestIsOne ==
  ASSUME NEW p \in Passport, WellOrdered(links[p]), NEW gone
  PROVE  /\ Oldest(p, gone) \subseteq Linked(p) \ gone
         /\ \A f, g \in Oldest(p, gone) : f = g
         /\ Linked(p) \ gone # {} => Oldest(p, gone) # {}
<1>1. Linked(p) = Of(links[p])
  BY DEF Linked, Of
<1>2. Oldest(p, gone) =
         {f \in Of(links[p]) \ gone : \A g \in Of(links[p]) \ gone : <<f, g>> \in links[p]}
  BY <1>1 DEF Oldest
<1>3. Of(links[p]) \ gone # {} => Oldest(p, gone) # {}
  <2>1. SUFFICES ASSUME Of(links[p]) \ gone # {} PROVE Oldest(p, gone) # {}
    OBVIOUS
  <2>2. PICK f \in Of(links[p]) \ gone : \A g \in Of(links[p]) \ gone : <<f, g>> \in links[p]
    BY <2>1 DEF WellOrdered
  <2> QED
    BY <1>2, <2>2
<1>4. \A f, g \in Oldest(p, gone) : f = g
  BY <1>2 DEF WellOrdered, Of
<1> QED
  BY <1>1, <1>2, <1>3, <1>4

LEMMA AtMostOne ==
  ASSUME NEW S, \A x, y \in S : x = y
  PROVE  Cardinality(S) <= 1
<1>1. CASE S = {}
  BY <1>1, FS_EmptySet
<1>2. CASE S # {}
  <2>1. PICK x : x \in S
    BY <1>2
  <2>2. S = {x}
    BY <2>1
  <2> QED
    BY <2>2, FS_Singleton
<1> QED
  BY <1>1, <1>2

--------------------------------------------------------------------------------
(***************************************************************************)
(* The store, and the requests between two of its calls.                   *)
(***************************************************************************)
StoreTyped ==
    /\ postgres \in BOOLEAN
    /\ status \in [Passport -> Status \cup {None}]
    /\ name \in [Profile -> Name \cup {None, Gone}]
    /\ links \in [Passport -> SUBSET (Profile \X Profile)]
    /\ primary \in [Passport -> SUBSET Profile]
    /\ req \in [Req -> Request]

Creators == {"nodeCreate", "portalCreate", "adminCreate"}

\* What the fields of a request hold where it is.
Shaped(q) ==
    /\ q.stage \in {"create", "identified", "promoted", "undo", "bind", "binding"} =>
          q.p \in Passport /\ q.f \in Profile
    /\ q.stage = "delete" => q.p \in Passport /\ q.handler = None
    /\ q.stage = "create" => q.n \in Name
    /\ q.stage \in {"create", "undo"} => q.handler \in Creators
    /\ q.stage \in {"identified", "promoted"} => q.handler = "grant"
    /\ q.handler = "grant" => q.prime = TRUE

\* What the first half of a bind found still holds when the second comes.
StillBindable(q) ==
    /\ postgres
    /\ status[q.p] # None
    /\ Exists(q.f)
    /\ ~NameTaken(q.p, q.f, name[q.f])

\* A request fits the store: an id that is to be inserted is not used yet, and
\* what is to be deleted was there once.
Fits(q) ==
    /\ Shaped(q)
    /\ q.stage = "create" => name[q.f] = None
    /\ q.stage = "delete" => postgres /\ \A f \in q.orphans : name[f] # None
    /\ q.stage = "binding" => StillBindable(q)

RequestsFit == \A r \in Req : Fits(req[r])

\* Ids are random, and rows locked by one transaction.
Apart(q, o) ==
    /\ q.stage = "create" /\ o.stage = "create" => q.f # o.f
    /\ q.stage = "binding" /\ o.stage = "binding" => q.p # o.p /\ q.f # o.f

RequestsApart == \A r, o \in Req : r # o => Apart(req[r], req[o])

LinksSound ==
    \A p \in Passport :
        /\ WellOrdered(links[p])
        /\ \A f \in Linked(p) : Exists(f) /\ status[p] # None
        /\ primary[p] \subseteq Linked(p)
        /\ \A f, g \in primary[p] : f = g
        /\ ~postgres /\ Linked(p) # {} => primary[p] # {}

StoreInv ==
    /\ StoreTyped
    /\ RequestsFit
    /\ RequestsApart
    /\ LinksSound
    /\ NamesDistinct

store == <<postgres, status, name, links, primary>>

Becomes(r, q) == req' = [req EXCEPT ![r] = q]

LEMMA NoRequestFits ==
  /\ NoRequest \in Request /\ NoRequest.stage = None /\ NoRequest.handler = None
  /\ NoRequest.p = None /\ NoRequest.f = None
  /\ Fits(NoRequest) /\ \A o : Apart(NoRequest, o) /\ Apart(o, NoRequest)
<1>1. /\ NoRequest \in Request /\ NoRequest.stage = None /\ NoRequest.handler = None
      /\ NoRequest.p = None /\ NoRequest.f = None
  BY DEF NoRequest, Request
<1> QED
  BY <1>1 DEF Fits, Shaped, Apart, None

LEMMA BecomesOne ==
  ASSUME StoreInv, NEW r \in Req, NEW q \in Request, Becomes(r, q)
  PROVE  /\ req' \in [Req -> Request]
         /\ req'[r] = q
         /\ \A o \in Req : o # r => req'[o] = req[o]
BY DEF StoreInv, StoreTyped, Becomes

LEMMA RequestFields ==
  ASSUME NEW q \in Request
  PROVE  /\ q.handler \in Handler \cup {None} /\ q.stage \in Stage \cup {None}
         /\ q.p \in Passport \cup {None} /\ q.f \in Profile \cup {None}
         /\ q.n \in Name \cup {None} /\ q.prime \in BOOLEAN /\ q.orphans \subseteq Profile
BY DEF Request

\* A request moves and the store is as it was.
LEMMA MovesKeep ==
  ASSUME StoreInv, NEW r \in Req, NEW q \in Request, Becomes(r, q), UNCHANGED store,
         Fits(q), \A o \in Req : o # r => Apart(q, req[o]) /\ Apart(req[o], q)
  PROVE  StoreInv'
<1>1. /\ req' \in [Req -> Request] /\ req'[r] = q
      /\ \A o \in Req : o # r => req'[o] = req[o]
  BY BecomesOne
<1>2. /\ postgres' = postgres /\ status' = status /\ name' = name /\ links' = links
      /\ primary' = primary
  BY DEF store
<1>3. StoreTyped'
  BY <1>1, <1>2 DEF StoreInv, StoreTyped
<1>4. \A p \in Passport : Linked(p)' = Linked(p)
  BY <1>2 DEF Linked
<1>5. \A o \in Req : Fits(req'[o])
  BY <1>1 DEF StoreInv, RequestsFit
<1>6. \A o \in Req : Fits(req[o])'
  BY <1>2, <1>5 DEF Fits, Shaped, StillBindable, Exists, NameTaken, Linked
<1>7. RequestsFit'
  BY <1>6 DEF RequestsFit
<1>8. RequestsApart'
  BY <1>1 DEF StoreInv, RequestsApart
<1>9. LinksSound' /\ NamesDistinct'
  BY <1>2, <1>4 DEF StoreInv, LinksSound, NamesDistinct, Exists
<1> QED
  BY <1>3, <1>7, <1>8, <1>9 DEF StoreInv

\* The same, where the request is at no step that the others must keep apart
\* from.
LEMMA PlainMovesKeep ==
  ASSUME StoreInv, NEW r \in Req, NEW q \in Request, Becomes(r, q), UNCHANGED store,
         Shaped(q), q.stage \notin {"create", "delete", "binding"}
  PROVE  StoreInv'
<1>1. Fits(q) /\ \A o \in Req : Apart(q, req[o]) /\ Apart(req[o], q)
  BY DEF Fits, Apart
<1> QED
  BY <1>1, MovesKeep

--------------------------------------------------------------------------------
(***************************************************************************)
(* What the store's own operations do to names and links.                  *)
(***************************************************************************)
RowsSound ==
    /\ links \in [Passport -> SUBSET (Profile \X Profile)]
    /\ primary \in [Passport -> SUBSET Profile]
    /\ LinksSound
    /\ NamesDistinct

\* What the rows of every passport must satisfy.
LEMMA RowsByPassport ==
  ASSUME links' \in [Passport -> SUBSET (Profile \X Profile)],
         primary' \in [Passport -> SUBSET Profile],
         \A p \in Passport :
            /\ WellOrdered(links'[p])
            /\ \A f \in Of(links'[p]) : name'[f] \in Name /\ status'[p] # None
            /\ primary'[p] \subseteq Of(links'[p])
            /\ \A f, g \in primary'[p] : f = g
            /\ ~postgres' /\ Of(links'[p]) # {} => primary'[p] # {}
            /\ \A f, g \in Of(links'[p]) : f # g => name'[f] # name'[g]
  PROVE  RowsSound'
<1>1. \A p \in Passport : Linked(p)' = Of(links'[p])
  BY DEF Linked, Of
<1>2. LinksSound'
  BY <1>1 DEF LinksSound, Exists
<1>3. NamesDistinct'
  BY <1>1 DEF NamesDistinct
<1> QED
  BY <1>2, <1>3 DEF RowsSound

\* What they satisfied before.
LEMMA RowsBefore ==
  ASSUME StoreInv, NEW p \in Passport
  PROVE  /\ links[p] \in SUBSET (Profile \X Profile) /\ primary[p] \in SUBSET Profile
         /\ Linked(p) = Of(links[p])
         /\ WellOrdered(links[p])
         /\ \A f \in Of(links[p]) : f \in Profile /\ name[f] \in Name /\ status[p] # None
         /\ primary[p] \subseteq Of(links[p])
         /\ \A f, g \in primary[p] : f = g
         /\ ~postgres /\ Of(links[p]) # {} => primary[p] # {}
         /\ \A f, g \in Of(links[p]) : f # g => name[f] # name[g]
<1>1. Linked(p) = Of(links[p])
  BY DEF Linked, Of
<1> QED
  BY <1>1 DEF StoreInv, StoreTyped, LinksSound, NamesDistinct, Exists, Of

LEMMA WithoutSome ==
  ASSUME StoreInv, NEW p \in Passport, NEW gone
  PROVE  Of(Without(p, gone)) = Linked(p) \ gone /\ WellOrdered(Without(p, gone))
<1>1. Linked(p) = Of(links[p]) /\ WellOrdered(links[p])
  BY RowsBefore
<1> QED
  BY <1>1, SomeUnlinked DEF Without

\* A link is made, or made primary or not.
LEMMA LinkRows ==
  ASSUME StoreInv, NEW p \in Passport, NEW f \in Profile, NEW prime, LinkProfile(p, f, prime)
  PROVE  /\ links' \in [Passport -> SUBSET (Profile \X Profile)]
         /\ primary' \in [Passport -> SUBSET Profile]
         /\ WellOrdered(links'[p])
         /\ Linked(p)' = Linked(p) \cup {f}
         /\ primary'[p] = IF prime THEN {f} ELSE primary[p] \ {f}
         /\ \A o \in Passport : o # p => links'[o] = links[o] /\ primary'[o] = primary[o]
<1> DEFINE L == Of(links[p])
           R == IF f \in L THEN links[p] ELSE links[p] \cup ((L \cup {f}) \X {f})
           P == IF prime THEN {f} ELSE primary[p] \ {f}
<1>1. Linked(p) = L /\ WellOrdered(links[p]) /\ L \subseteq Profile
  BY RowsBefore
<1>2. links' = [links EXCEPT ![p] = R] /\ primary' = [primary EXCEPT ![p] = P]
  BY <1>1 DEF LinkProfile
<1>3. Of(R) = L \cup {f} /\ WellOrdered(R)
  BY <1>1, YoungestLinked
<1>4. R \in SUBSET (Profile \X Profile) /\ P \in SUBSET Profile
  BY <1>3, RowsBefore DEF WellOrdered
<1> HIDE DEF R, P
<1>5. /\ links' \in [Passport -> SUBSET (Profile \X Profile)]
      /\ primary' \in [Passport -> SUBSET Profile]
      /\ links'[p] = R /\ primary'[p] = P
      /\ \A o \in Passport : o # p => links'[o] = links[o] /\ primary'[o] = primary[o]
  BY <1>2, <1>4 DEF StoreInv, StoreTyped
<1>6. Linked(p)' = Linked(p) \cup {f}
  BY <1>1, <1>3, <1>5 DEF Linked, Of
<1> QED
  BY <1>3, <1>5, <1>6 DEF P

LEMMA LinkEffect ==
  ASSUME StoreInv, NEW p \in Passport, NEW f \in Profile, NEW prime \in BOOLEAN,
         LinkProfile(p, f, prime), UNCHANGED <<postgres, status, name>>,
         Exists(f), status[p] # None, ~NameTaken(p, f, name[f]),
         ~postgres /\ ~prime => f \notin primary[p] /\ primary[p] # {}
  PROVE  RowsSound'
<1>1. /\ links' \in [Passport -> SUBSET (Profile \X Profile)]
      /\ primary' \in [Passport -> SUBSET Profile]
      /\ WellOrdered(links'[p])
      /\ Linked(p)' = Linked(p) \cup {f}
      /\ primary'[p] = IF prime THEN {f} ELSE primary[p] \ {f}
      /\ \A o \in Passport : o # p => links'[o] = links[o] /\ primary'[o] = primary[o]
  BY LinkRows
<1>2. Of(links'[p]) = Linked(p) \cup {f}
  BY <1>1 DEF Linked, Of
<1>3. /\ primary'[p] \subseteq Linked(p) \cup {f}
      /\ \A g, h \in primary'[p] : g = h
      /\ ~postgres => primary'[p] # {}
  BY <1>1, RowsBefore
<1>4. \A g, h \in Linked(p) \cup {f} : g # h => name[g] # name[h]
  <2>1. \A g, h \in Linked(p) : g # h => name[g] # name[h]
    BY RowsBefore
  <2>2. \A g \in Linked(p) : g # f => name[g] # name[f]
    BY DEF NameTaken
  <2> QED
    BY <2>1, <2>2
<1>5. \A g \in Linked(p) \cup {f} : name[g] \in Name
  BY RowsBefore DEF Exists
<1>6. ASSUME NEW o \in Passport
      PROVE  /\ WellOrdered(links'[o])
             /\ \A g \in Of(links'[o]) : name'[g] \in Name /\ status'[o] # None
             /\ primary'[o] \subseteq Of(links'[o])
             /\ \A g, h \in primary'[o] : g = h
             /\ ~postgres' /\ Of(links'[o]) # {} => primary'[o] # {}
             /\ \A g, h \in Of(links'[o]) : g # h => name'[g] # name'[h]
  <2>1. CASE o = p
    BY <1>1, <1>2, <1>3, <1>4, <1>5, <2>1
  <2>2. CASE o # p
    BY <1>1, <2>2, RowsBefore
  <2> QED
    BY <2>1, <2>2
<1> QED
  BY <1>1, <1>6, RowsByPassport

\* Links go, with their profiles or without.
LEMMA UnlinkEffect ==
  ASSUME StoreInv, NEW from \in SUBSET Passport, NEW gone,
         UnlinkProfiles(from, gone), UNCHANGED <<postgres, status>>,
         \A p \in Passport : \A f \in Linked(p) : (p \in from /\ f \in gone) \/ name'[f] = name[f]
  PROVE  /\ RowsSound'
         /\ \A p \in Passport :
               Linked(p)' = IF p \in from THEN Linked(p) \ gone ELSE Linked(p)
<1> DEFINE R(p) == IF p \in from THEN Without(p, gone) ELSE links[p]
           P(p) == IF p \in from /\ primary[p] \cap gone # {} THEN Oldest(p, gone) ELSE primary[p]
           L(p) == IF p \in from THEN Linked(p) \ gone ELSE Linked(p)
<1>1. links' = [p \in Passport |-> R(p)] /\ primary' = [p \in Passport |-> P(p)]
  BY DEF UnlinkProfiles
<1>2. ASSUME NEW p \in Passport
      PROVE  /\ R(p) \in SUBSET (Profile \X Profile) /\ P(p) \in SUBSET Profile
             /\ WellOrdered(R(p)) /\ Of(R(p)) = L(p)
             /\ L(p) \subseteq Linked(p)
             /\ P(p) \subseteq L(p) /\ (\A f, g \in P(p) : f = g)
             /\ ~postgres /\ L(p) # {} => P(p) # {}
  <2>1. /\ Linked(p) = Of(links[p]) /\ WellOrdered(links[p])
        /\ primary[p] \subseteq Of(links[p]) /\ Of(links[p]) \subseteq Profile
        /\ \A f, g \in primary[p] : f = g
        /\ ~postgres /\ Of(links[p]) # {} => primary[p] # {}
    BY RowsBefore
  <2>2. /\ Oldest(p, gone) \subseteq Linked(p) \ gone
        /\ \A f, g \in Oldest(p, gone) : f = g
        /\ Linked(p) \ gone # {} => Oldest(p, gone) # {}
    BY <2>1, OldestIsOne
  <2>3. Of(Without(p, gone)) = Linked(p) \ gone /\ WellOrdered(Without(p, gone))
    BY WithoutSome
  <2>4. WellOrdered(R(p)) /\ Of(R(p)) = L(p)
    BY <2>1, <2>3
  <2>5. R(p) \in SUBSET (Profile \X Profile)
    BY <2>4 DEF WellOrdered
  <2>6. L(p) \subseteq Linked(p) /\ P(p) \subseteq L(p) /\ (\A f, g \in P(p) : f = g)
    BY <2>1, <2>2
  <2>7. ~postgres /\ L(p) # {} => P(p) # {}
    BY <2>1, <2>2
  <2> QED
    BY <2>1, <2>4, <2>5, <2>6, <2>7
<1>3. \A p \in Passport : \A f \in L(p) : name'[f] = name[f]
  OBVIOUS
<1> HIDE DEF R, P
<1>4. /\ links' \in [Passport -> SUBSET (Profile \X Profile)]
      /\ primary' \in [Passport -> SUBSET Profile]
      /\ \A p \in Passport : links'[p] = R(p) /\ primary'[p] = P(p)
  BY <1>1, <1>2
<1>5. ASSUME NEW p \in Passport
      PROVE  /\ WellOrdered(links'[p])
             /\ \A f \in Of(links'[p]) : name'[f] \in Name /\ status'[p] # None
             /\ primary'[p] \subseteq Of(links'[p])
             /\ \A f, g \in primary'[p] : f = g
             /\ ~postgres' /\ Of(links'[p]) # {} => primary'[p] # {}
             /\ \A f, g \in Of(links'[p]) : f # g => name'[f] # name'[g]
  <2>1. links'[p] = R(p) /\ primary'[p] = P(p) /\ Of(links'[p]) = L(p)
    BY <1>2, <1>4
  <2>2. L(p) \subseteq Of(links[p]) /\ \A f \in L(p) : name'[f] = name[f]
    BY <1>2, <1>3, RowsBefore
  <2> HIDE DEF L
  <2>3. \A f \in L(p) : name'[f] \in Name /\ status'[p] # None
    BY <2>2, RowsBefore
  <2>4. \A f, g \in L(p) : f # g => name'[f] # name'[g]
    BY <2>2, RowsBefore
  <2> QED
    BY <1>2, <2>1, <2>3, <2>4
<1>6. RowsSound'
  BY <1>4, <1>5, RowsByPassport
<1>7. \A p \in Passport : Linked(p)' = L(p)
  BY <1>2, <1>4 DEF Linked, Of
<1> QED
  BY <1>6, <1>7

\* A passport goes, with the profiles of an earlier look at its orphans.
LEMMA RemoveEffect ==
  ASSUME StoreInv, NEW p \in Passport, NEW orphans \in SUBSET Profile,
         RemovePassport(p, orphans), ~postgres => orphans = Orphans(p)
  PROVE  /\ RowsSound'
         /\ Linked(p)' = {}
         /\ \A o \in Passport : o # p => Linked(o)' = Linked(o) \ orphans
<1>1. /\ links' = [o \in Passport |-> IF o = p THEN {} ELSE Without(o, orphans)]
      /\ primary' = [o \in Passport |-> IF o = p THEN {} ELSE primary[o] \ orphans]
      /\ name' = [f \in Profile |-> IF f \in orphans THEN Gone ELSE name[f]]
      /\ status' = [status EXCEPT ![p] = None]
      /\ postgres' = postgres
  BY DEF RemovePassport
<1>2. status \in [Passport -> Status \cup {None}]
  BY DEF StoreInv, StoreTyped
<1>3. Of(links'[p]) = {} /\ WellOrdered(links'[p]) /\ primary'[p] = {}
  <2>1. links'[p] = {} /\ primary'[p] = {}
    BY <1>1
  <2> QED
    BY <2>1, NoneLinked
<1>4. ASSUME NEW o \in Passport, o # p
      PROVE  /\ WellOrdered(links'[o]) /\ Of(links'[o]) = Linked(o) \ orphans
             /\ primary'[o] = primary[o] \ orphans
             /\ ~postgres => primary'[o] = primary[o]
  <2>1. links'[o] = Without(o, orphans) /\ primary'[o] = primary[o] \ orphans
    BY <1>1, <1>4
  <2>2. Linked(o) = Of(links[o]) /\ WellOrdered(links[o]) /\ primary[o] \subseteq Linked(o)
    BY RowsBefore
  <2>3. Of(Without(o, orphans)) = Linked(o) \ orphans /\ WellOrdered(Without(o, orphans))
    BY WithoutSome
  <2>4. ~postgres => primary[o] \ orphans = primary[o]
    BY <1>4, <2>2 DEF Orphans
  <2> QED
    BY <2>1, <2>3, <2>4
<1>5. /\ links' \in [Passport -> SUBSET (Profile \X Profile)]
      /\ primary' \in [Passport -> SUBSET Profile]
  <2>1. \A o \in Passport : /\ links'[o] \in SUBSET (Profile \X Profile)
                            /\ primary'[o] \in SUBSET Profile
    BY <1>3, <1>4, RowsBefore DEF WellOrdered
  <2> QED
    BY <1>1, <2>1
<1>6. ASSUME NEW o \in Passport
      PROVE  /\ WellOrdered(links'[o])
             /\ \A f \in Of(links'[o]) : name'[f] \in Name /\ status'[o] # None
             /\ primary'[o] \subseteq Of(links'[o])
             /\ \A f, g \in primary'[o] : f = g
             /\ ~postgres' /\ Of(links'[o]) # {} => primary'[o] # {}
             /\ \A f, g \in Of(links'[o]) : f # g => name'[f] # name'[g]
  <2>1. CASE o = p
    BY <1>3, <2>1
  <2>2. CASE o # p
    <3>1. \A f \in Linked(o) \ orphans : f \in Profile /\ name'[f] = name[f]
      BY <1>1, RowsBefore
    <3>2. status'[o] = status[o]
      BY <1>1, <1>2, <2>2
    <3> QED
      BY <1>1, <1>4, <2>2, <3>1, <3>2, RowsBefore
  <2> QED
    BY <2>1, <2>2
<1>7. RowsSound'
  BY <1>5, <1>6, RowsByPassport
<1>8. \A o \in Passport : Linked(o)' = Of(links'[o])
  BY DEF Linked, Of
<1> QED
  BY <1>3, <1>4, <1>7, <1>8

\* Only names and statuses change, as the links allow.
LEMMA NamesEffect ==
  ASSUME StoreInv, UNCHANGED <<postgres, links, primary>>,
         \A p \in Passport : \A f \in Linked(p) : name'[f] \in Name /\ status'[p] # None,
         \A p \in Passport : \A f, g \in Linked(p) : f # g => name'[f] # name'[g]
  PROVE  RowsSound' /\ \A p \in Passport : Linked(p)' = Linked(p)
<1>1. \A p \in Passport : Linked(p)' = Linked(p)
  BY DEF Linked
<1> QED
  BY <1>1 DEF RowsSound, StoreInv, StoreTyped, LinksSound, NamesDistinct, Exists

--------------------------------------------------------------------------------
(***************************************************************************)
(* What they do to the requests.                                           *)
(***************************************************************************)
\* The store changes under requests that still fit it, while the one that
\* changed it goes to a step where the others need not keep apart from it.
LEMMA ChangeKeeps ==
  ASSUME StoreInv, RowsSound',
         postgres' \in BOOLEAN, status' \in [Passport -> Status \cup {None}],
         name' \in [Profile -> Name \cup {None, Gone}], req' \in [Req -> Request],
         \A r \in Req : req'[r] # req[r] =>
            Shaped(req'[r]) /\ req'[r].stage \notin {"create", "delete", "binding"},
         \A r \in Req : req'[r] = req[r] => Fits(req[r])'
  PROVE  StoreInv'
<1>1. StoreTyped' /\ LinksSound' /\ NamesDistinct'
  BY DEF StoreTyped, RowsSound
<1>2. RequestsFit'
  <2>1. SUFFICES ASSUME NEW r \in Req PROVE Fits(req[r])'
    BY DEF RequestsFit
  <2>2. CASE req'[r] # req[r]
    BY <2>2 DEF Fits, Shaped
  <2> QED
    BY <2>2
<1>3. RequestsApart'
  <2>1. SUFFICES ASSUME NEW r \in Req, NEW o \in Req, r # o PROVE Apart(req'[r], req'[o])
    BY DEF RequestsApart
  <2>2. CASE req'[r] # req[r] \/ req'[o] # req[o]
    BY <2>2 DEF Apart
  <2>3. CASE req'[r] = req[r] /\ req'[o] = req[o]
    BY <2>1, <2>3 DEF StoreInv, RequestsApart
  <2> QED
    BY <2>2, <2>3
<1> QED
  BY <1>1, <1>2, <1>3 DEF StoreInv

\* A request fits the store that changed.
LEMMA StillFits ==
  ASSUME StoreInv, NEW r \in Req, req'[r] = req[r], postgres' = postgres,
         At(r, "create") => name'[req[r].f] = None,
         At(r, "delete") => \A f \in req[r].orphans : name'[f] # None,
         At(r, "binding") => /\ status'[req[r].p] # None
                             /\ name'[req[r].f] = name[req[r].f]
                             /\ Linked(req[r].p)' \subseteq Linked(req[r].p)
                             /\ \A g \in Linked(req[r].p)' \ {req[r].f} :
                                   name'[g] # name[req[r].f]
  PROVE  Fits(req[r])'
<1>1. Fits(req[r]) /\ req[r] \in Request
  BY DEF StoreInv, RequestsFit, StoreTyped
<1>2. Shaped(req'[r])
  BY <1>1 DEF Fits
<1>3. At(r, "binding") => StillBindable(req[r])'
  <2>1. SUFFICES ASSUME At(r, "binding") PROVE StillBindable(req[r])'
    OBVIOUS
  <2>2. StillBindable(req[r]) /\ req[r].p \in Passport
    BY <1>1, <2>1 DEF Fits, Shaped, At
  <2>3. /\ postgres' /\ status'[req'[r].p] # None /\ name'[req'[r].f] \in Name
        /\ ~\E g \in Linked(req[r].p)' \ {req'[r].f} : name'[g] = name'[req'[r].f]
    BY <2>1, <2>2 DEF StillBindable, Exists
  <2>4. Linked(req[r].p)' = {f \in Profile : <<f, f>> \in links'[req'[r].p]}
    BY DEF Linked
  <2> QED
    BY <2>3, <2>4 DEF StillBindable, Exists, NameTaken, Linked
<1> QED
  BY <1>1, <1>2, <1>3 DEF Fits, Shaped, At

\* Links and profiles only go, where no bind of theirs is under way.
Shrinks ==
    /\ postgres' = postgres
    /\ \A p \in Passport : Linked(p)' \subseteq Linked(p)
    /\ \A p \in Passport : \A f \in Linked(p)' : name'[f] = name[f]
    /\ \A p \in Passport : status'[p] = status[p] \/ ~PassportLocked(p)
    /\ \A f \in Profile :
          name'[f] = name[f] \/ (name[f] # None /\ name'[f] # None /\ ~ProfileLocked(f))

LEMMA ShrinkFits ==
  ASSUME StoreInv, Shrinks, NEW r \in Req, req'[r] = req[r]
  PROVE  Fits(req[r])'
<1>1. Fits(req[r]) /\ req[r].orphans \subseteq Profile
  BY RequestFields DEF StoreInv, RequestsFit, StoreTyped
<1>2. At(r, "create") => name'[req[r].f] = None
  BY <1>1 DEF Fits, Shaped, At, Shrinks
<1>3. At(r, "delete") => \A f \in req[r].orphans : name'[f] # None
  BY <1>1 DEF Fits, At, Shrinks
<1>4. ASSUME At(r, "binding")
      PROVE  /\ status'[req[r].p] # None
             /\ name'[req[r].f] = name[req[r].f]
             /\ Linked(req[r].p)' \subseteq Linked(req[r].p)
             /\ \A g \in Linked(req[r].p)' \ {req[r].f} : name'[g] # name[req[r].f]
  <2>1. req[r].p \in Passport /\ req[r].f \in Profile /\ StillBindable(req[r])
    BY <1>1, <1>4 DEF Fits, Shaped, At
  <2>2. PassportLocked(req[r].p) /\ ProfileLocked(req[r].f)
    BY <1>4 DEF PassportLocked, ProfileLocked
  <2> QED
    BY <2>1, <2>2 DEF Shrinks, StillBindable, NameTaken
<1> QED
  BY <1>2, <1>3, <1>4, StillFits DEF Shrinks

--------------------------------------------------------------------------------
(***************************************************************************)
(* Every action keeps StoreInv.                                            *)
(***************************************************************************)
LEMMA RequestNow ==
  ASSUME StoreInv, NEW r \in Req
  PROVE  req[r] \in Request /\ Fits(req[r]) /\ Shaped(req[r])
BY DEF StoreInv, StoreTyped, RequestsFit, Fits

\* What a caller can bind: a passport and a profile.
Binds(q) ==
    /\ q \in Request /\ q.p \in Passport /\ q.f \in Profile
    /\ q.handler = "grant" => q.prime = TRUE

\* Handlers that the limit holds for.
Players == {"nodeCreate", "portalCreate"}

LEMMA AfterBindMoves ==
  ASSUME NEW r \in Req, NEW q, Binds(q), NEW done \in BOOLEAN, AfterBind(r, q, done)
  PROVE  \E m \in Request :
            /\ Becomes(r, m) /\ Shaped(m) /\ m.stage \notin {"create", "delete", "binding"}
            /\ m.handler \notin Players
            /\ m.handler = "grant" \/ m.stage = "promoted" =>
                  q.handler = "grant" /\ m.stage = "promoted" /\ m.p = q.p /\ m.f = q.f
<1>1. CASE q.handler = "grant"
  <2> DEFINE m == [q EXCEPT !.stage = "promoted"]
  <2>1. m \in Request
    BY DEF Binds, Request, Stage
  <2>2. /\ m.stage = "promoted" /\ m.p = q.p /\ m.f = q.f /\ m.handler = q.handler
        /\ m.prime = q.prime
    BY DEF Binds, Request
  <2>3. Becomes(r, m)
    BY <1>1 DEF AfterBind, Becomes
  <2> HIDE DEF m
  <2> QED
    BY <1>1, <2>1, <2>2, <2>3 DEF Binds, Shaped, Players
<1>2. CASE q.handler = "adminCreate" /\ ~done
  <2> DEFINE m == [q EXCEPT !.stage = "undo"]
  <2>1. m \in Request
    BY DEF Binds, Request, Stage
  <2>2. /\ m.stage = "undo" /\ m.p = q.p /\ m.f = q.f /\ m.handler = q.handler
    BY DEF Binds, Request
  <2>3. Becomes(r, m)
    BY <1>2 DEF AfterBind, Becomes
  <2> HIDE DEF m
  <2> QED
    BY <1>2, <2>1, <2>2, <2>3 DEF Binds, Shaped, Creators, Players
<1>3. CASE ~(q.handler = "grant") /\ ~(q.handler = "adminCreate" /\ ~done)
  <2>1. Becomes(r, NoRequest)
    BY <1>3 DEF AfterBind, Becomes
  <2>2. NoRequest.stage \notin {"create", "delete", "binding"}
    BY NoRequestFits DEF None
  <2> QED
    BY <2>1, <2>2, NoRequestFits DEF Fits, Players, None
<1> QED
  BY <1>1, <1>2, <1>3

\* A link is made and its request goes on: no other transaction has a row of it.
LEMMA LinkKeeps ==
  ASSUME StoreInv, NEW r \in Req, NEW q, Binds(q), NEW prime \in BOOLEAN,
         LinkProfile(q.p, q.f, prime), AfterBind(r, q, TRUE), UNCHANGED <<postgres, status, name>>,
         Exists(q.f), status[q.p] # None, ~NameTaken(q.p, q.f, name[q.f]),
         ~postgres /\ ~prime => q.f \notin primary[q.p] /\ primary[q.p] # {},
         \A o \in Req : o # r /\ At(o, "binding") => req[o].p # q.p
  PROVE  StoreInv'
<1>1. q.p \in Passport /\ q.f \in Profile
  BY DEF Binds
<1>2. RowsSound' /\ \A o \in Passport : o # q.p => Linked(o)' = Linked(o)
  BY <1>1, LinkRows, LinkEffect DEF Linked
<1>3. PICK m \in Request : Becomes(r, m) /\ Shaped(m) /\ m.stage \notin {"create", "delete", "binding"}
  BY AfterBindMoves
<1>4. req' \in [Req -> Request] /\ req'[r] = m /\ \A o \in Req : o # r => req'[o] = req[o]
  BY <1>3, BecomesOne
<1>5. ASSUME NEW o \in Req, req'[o] = req[o] PROVE Fits(req[o])'
  <2>1. Fits(req[o])
    BY RequestNow
  <2>2. CASE At(o, "binding")
    <3>1. o # r
      BY <1>3, <1>4, <1>5, <2>2 DEF At
    <3>2. req[o].p \in Passport /\ StillBindable(req[o]) /\ req[o].p # q.p
      BY <2>1, <2>2, <3>1 DEF Fits, Shaped, At
    <3>3. Linked(req[o].p)' = Linked(req[o].p)
      <4>1. PICK p \in Passport : p = req[o].p
        BY <3>2
      <4>2. Linked(p)' = Linked(p)
        BY <1>2, <3>2, <4>1
      <4> QED
        BY <1>5, <4>1, <4>2 DEF Linked
    <3>4. ~At(o, "create") /\ ~At(o, "delete")
      BY <2>2 DEF At
    <3> QED
      BY <1>5, <3>2, <3>3, <3>4, StillFits DEF StillBindable, NameTaken
  <2>3. CASE ~At(o, "binding")
    BY <1>5, <2>1, <2>3, StillFits DEF Fits, At
  <2> QED
    BY <2>2, <2>3
<1>6. \A o \in Req : req'[o] # req[o] =>
         Shaped(req'[o]) /\ req'[o].stage \notin {"create", "delete", "binding"}
  BY <1>3, <1>4
<1> QED
  BY <1>2, <1>4, <1>5, <1>6, ChangeKeeps DEF StoreInv, StoreTyped

LEMMA BindKeeps ==
  ASSUME StoreInv, NEW r \in Req, NEW q, Binds(q), Bind(r, q)
  PROVE  StoreInv'
<1>1. UNCHANGED <<postgres, status, name>>
  BY DEF Bind
<1>2. CASE ~Bindable(q.p, q.f)
  <2>1. AfterBind(r, q, FALSE) /\ UNCHANGED <<links, primary>>
    BY <1>2 DEF Bind
  <2>2. PICK m \in Request : Becomes(r, m) /\ Shaped(m) /\ m.stage \notin {"create", "delete", "binding"}
    BY <2>1, AfterBindMoves
  <2> QED
    BY <1>1, <2>1, <2>2, PlainMovesKeep DEF store
<1>3. CASE Bindable(q.p, q.f) /\ postgres
  <2> DEFINE m == [q EXCEPT !.stage = "binding", !.prime = BindsPrimary(q.p, q.f, q.prime)]
  <2>1. Becomes(r, m) /\ UNCHANGED store
    BY <1>1, <1>3 DEF Bind, Becomes, store
  <2>2. BindsPrimary(q.p, q.f, q.prime) \in BOOLEAN /\ (q.prime = TRUE => BindsPrimary(q.p, q.f, q.prime) = TRUE)
    <3>1. q.prime \in BOOLEAN
      BY RequestFields DEF Binds
    <3> QED
      BY <3>1 DEF BindsPrimary
  <2>3. m \in Request
    BY <2>2 DEF Binds, Request, Stage
  <2>4. /\ m.stage = "binding" /\ m.p = q.p /\ m.f = q.f /\ m.handler = q.handler
        /\ (q.prime = TRUE => m.prime = TRUE)
    BY <2>2 DEF Binds, Request
  <2> HIDE DEF m
  <2>5. Shaped(m)
    BY <2>4 DEF Binds, Shaped
  <2>6. StillBindable(m)
    BY <1>3, <2>4 DEF Bindable, StillBindable
  <2>7. Fits(m)
    BY <2>4, <2>5, <2>6 DEF Fits
  <2>8. \A o \in Req : Apart(m, req[o]) /\ Apart(req[o], m)
    BY <2>4 DEF Bind, RowsFree, PassportLocked, ProfileLocked, At, Apart
  <2> QED
    BY <2>1, <2>3, <2>7, <2>8, MovesKeep
<1>4. CASE Bindable(q.p, q.f) /\ ~postgres
  <2>1. PICK prime \in BOOLEAN : prime = BindsPrimary(q.p, q.f, q.prime)
    <3>1. q.prime \in BOOLEAN
      BY RequestFields DEF Binds
    <3> QED
      BY <3>1 DEF BindsPrimary
  <2>2. LinkProfile(q.p, q.f, prime) /\ AfterBind(r, q, TRUE)
    BY <1>4, <2>1 DEF Bind
  <2>3. Exists(q.f) /\ status[q.p] # None /\ ~NameTaken(q.p, q.f, name[q.f])
    BY <1>4 DEF Bindable
  <2>4. ~prime => q.f \notin primary[q.p] /\ primary[q.p] # {}
    BY <2>1 DEF BindsPrimary
  <2>5. \A o \in Req : ~At(o, "binding")
    BY <1>4, RequestNow DEF Fits, StillBindable, At
  <2> QED
    BY <1>1, <2>2, <2>3, <2>4, <2>5, LinkKeeps
<1> QED
  BY <1>2, <1>3, <1>4

LEMMA BindNextKeeps ==
  ASSUME StoreInv, NEW r \in Req, BindNext(r)
  PROVE  StoreInv'
<1>1. Binds(req[r]) /\ Bind(r, req[r])
  BY RequestNow DEF BindNext, At, Binds, Shaped
<1> QED
  BY <1>1, BindKeeps

LEMMA AdminBindKeeps ==
  ASSUME StoreInv, NEW r \in Req, NEW p \in Passport, NEW f \in Profile,
         NEW prime \in BOOLEAN, AdminBind(r, p, f, prime)
  PROVE  StoreInv'
<1> DEFINE q == [NoRequest EXCEPT !.handler = "bind", !.p = p, !.f = f, !.prime = prime]
<1>1. Binds(q)
  BY DEF Binds, NoRequest, Request, Handler
<1>2. Bind(r, q)
  BY DEF AdminBind
<1> HIDE DEF q
<1> QED
  BY <1>1, <1>2, BindKeeps

LEMMA BindWriteKeeps ==
  ASSUME StoreInv, NEW r \in Req, BindWrite(r)
  PROVE  StoreInv'
<1>1. req[r] \in Request /\ Fits(req[r]) /\ Shaped(req[r])
  BY RequestNow
<1>2. Binds(req[r]) /\ req[r].prime \in BOOLEAN /\ StillBindable(req[r])
  BY <1>1, RequestFields DEF BindWrite, At, Binds, Shaped, Fits
<1>3. \A o \in Req : o # r /\ At(o, "binding") => req[o].p # req[r].p
  BY DEF StoreInv, RequestsApart, Apart, BindWrite, At
<1>4. /\ LinkProfile(req[r].p, req[r].f, req[r].prime) /\ AfterBind(r, req[r], TRUE)
      /\ UNCHANGED <<postgres, status, name>>
  BY DEF BindWrite
<1> QED
  BY <1>2, <1>3, <1>4, LinkKeeps DEF StillBindable

LEMMA CreateCheckKeeps ==
  ASSUME StoreInv, NEW r \in Req, NEW h \in Creators, NEW p \in Passport,
         NEW f \in Profile, NEW n \in Name, CreateCheck(r, h, p, f, n)
  PROVE  StoreInv'
<1> DEFINE q == [NoRequest EXCEPT !.handler = h, !.stage = "create", !.p = p, !.f = f,
                                   !.n = n, !.prime = (h = "nodeCreate")]
<1>1. q \in Request
  BY DEF Creators, NoRequest, Request, Handler, Stage
<1>2. q.stage = "create" /\ q.p = p /\ q.f = f /\ q.n = n /\ q.handler = h
  BY DEF NoRequest
<1>3. Becomes(r, q) /\ UNCHANGED store /\ Fresh(f)
  BY DEF CreateCheck, Begin, Becomes, store
<1> HIDE DEF q
<1>4. Fits(q)
  BY <1>2, <1>3 DEF Fits, Shaped, Fresh, Creators
<1>5. \A o \in Req : Apart(q, req[o]) /\ Apart(req[o], q)
  BY <1>2, <1>3 DEF Fresh, At, Apart
<1> QED
  BY <1>1, <1>3, <1>4, <1>5, MovesKeep

LEMMA CreateInsertKeeps ==
  ASSUME StoreInv, NEW r \in Req, CreateInsert(r)
  PROVE  StoreInv'
<1>1. PICK f \in Profile, n \in Name : req[r].f = f /\ req[r].n = n /\ name[f] = None
  BY RequestNow DEF CreateInsert, At, Fits, Shaped
<1> DEFINE m == [req[r] EXCEPT !.stage = "bind", !.n = None]
<1>2. /\ m \in Request /\ m.stage = "bind" /\ m.p = req[r].p /\ m.f = f
      /\ m.handler = req[r].handler /\ m.prime = req[r].prime
  <2>1. PICK q \in Request : q = req[r]
    BY RequestNow
  <2>2. [q EXCEPT !.stage = "bind", !.n = None] \in Request
    BY DEF Request, Stage
  <2>3. /\ m.stage = "bind" /\ m.p = q.p /\ m.f = q.f /\ m.handler = q.handler
        /\ m.prime = q.prime
    BY <2>1 DEF Request
  <2> QED
    BY <1>1, <2>1, <2>2, <2>3
<1>3. Becomes(r, m)
  BY DEF CreateInsert, Becomes, StoreInv, StoreTyped
<1> HIDE DEF m
<1>4. Shaped(m)
  BY <1>1, <1>2, RequestNow DEF CreateInsert, At, Shaped, Creators
<1>5. req' \in [Req -> Request] /\ req'[r] = m /\ \A o \in Req : o # r => req'[o] = req[o]
  BY <1>2, <1>3, BecomesOne
<1>6. /\ name' = [name EXCEPT ![f] = n]
      /\ UNCHANGED <<postgres, status, links, primary>>
  BY <1>1 DEF CreateInsert
<1>7. /\ name' \in [Profile -> Name \cup {None, Gone}]
      /\ name'[f] = n /\ \A g \in Profile : g # f => name'[g] = name[g]
      /\ n # None /\ None \notin Name
  BY <1>6, ProfileNames DEF StoreInv, StoreTyped
<1>8. \A p \in Passport : \A g \in Linked(p) : g \in Profile /\ g # f /\ name'[g] = name[g]
  BY <1>1, <1>7, RowsBefore
<1>9. RowsSound' /\ \A p \in Passport : Linked(p)' = Linked(p)
  BY <1>6, <1>8, NamesEffect DEF StoreInv, LinksSound, NamesDistinct, Exists
<1>10. ASSUME NEW o \in Req, req'[o] = req[o] PROVE Fits(req[o])'
  <2>1. req[o] \in Request /\ Fits(req[o]) /\ Shaped(req[o]) /\ req[o].orphans \subseteq Profile
    BY RequestNow, RequestFields
  <2>2. o # r
    BY <1>2, <1>5, <1>10 DEF CreateInsert, At
  <2>3. At(o, "create") => req[o].f # f /\ req[o].f \in Profile /\ name[req[o].f] = None
    BY <1>1, <2>1, <2>2 DEF StoreInv, RequestsApart, Apart, CreateInsert, At, Fits, Shaped
  <2>4. At(o, "delete") => \A g \in req[o].orphans : name'[g] # None
    BY <1>7, <2>1 DEF Fits, At
  <2>5. ASSUME At(o, "binding")
        PROVE  /\ status'[req[o].p] # None
               /\ name'[req[o].f] = name[req[o].f]
               /\ Linked(req[o].p)' \subseteq Linked(req[o].p)
               /\ \A g \in Linked(req[o].p)' \ {req[o].f} : name'[g] # name[req[o].f]
    <3>1. PICK p \in Passport : p = req[o].p
      BY <2>1, <2>5 DEF At, Shaped
    <3>2. StillBindable(req[o]) /\ req[o].f \in Profile
      BY <2>1, <2>5 DEF At, Shaped, Fits
    <3>3. name'[req[o].f] = name[req[o].f]
      BY <1>1, <1>7, <3>2 DEF StillBindable, Exists
    <3>4. Linked(req[o].p)' = Linked(p)
      BY <1>9, <1>10, <3>1 DEF Linked
    <3>5. \A g \in Linked(p) \ {req[o].f} : name'[g] # name[req[o].f]
      BY <1>8, <3>1, <3>2 DEF StillBindable, NameTaken
    <3> QED
      BY <1>6, <3>1, <3>2, <3>3, <3>4, <3>5 DEF StillBindable
  <2> QED
    BY <1>6, <1>7, <1>10, <2>3, <2>4, <2>5, StillFits
<1> QED
  BY <1>2, <1>4, <1>5, <1>6, <1>7, <1>9, <1>10, ChangeKeeps DEF StoreInv, StoreTyped

\* Links and profiles go, and the request that did it, if any, is over.
LEMMA ShrinkKeeps ==
  ASSUME StoreInv, RowsSound', Shrinks,
         status' \in [Passport -> Status \cup {None}],
         name' \in [Profile -> Name \cup {None, Gone}],
         req' = req \/ \E r \in Req : Finish(r)
  PROVE  StoreInv'
<1>1. req' \in [Req -> Request] /\ \A r \in Req : req'[r] # req[r] => req'[r] = NoRequest
  BY NoRequestFits DEF Finish, StoreInv, StoreTyped
<1>2. \A r \in Req : req'[r] # req[r] =>
         Shaped(req'[r]) /\ req'[r].stage \notin {"create", "delete", "binding"}
  BY <1>1, NoRequestFits DEF Fits, None
<1>3. \A r \in Req : req'[r] = req[r] => Fits(req[r])'
  BY ShrinkFits
<1>4. postgres' \in BOOLEAN
  BY DEF Shrinks, StoreInv, StoreTyped
<1> QED
  BY <1>1, <1>2, <1>3, <1>4, ChangeKeeps

LEMMA UnlinkKeeps ==
  ASSUME StoreInv, NEW from \in SUBSET Passport, NEW gone, UnlinkProfiles(from, gone),
         UNCHANGED <<postgres, status, name, req>>
  PROVE  StoreInv'
<1>1. /\ RowsSound'
      /\ \A p \in Passport : Linked(p)' = IF p \in from THEN Linked(p) \ gone ELSE Linked(p)
  BY UnlinkEffect
<1>2. Shrinks
  BY <1>1 DEF Shrinks
<1> QED
  BY <1>1, <1>2, ShrinkKeeps DEF StoreInv, StoreTyped

LEMMA UnbindKeeps ==
  ASSUME StoreInv, NEW p \in Passport, NEW f \in Profile, Unbind(p, f)
  PROVE  StoreInv'
BY UnlinkKeeps DEF Unbind

LEMMA UnbindAllKeeps ==
  ASSUME StoreInv, NEW f \in Profile, UnbindAll(f)
  PROVE  StoreInv'
BY UnlinkKeeps DEF UnbindAll

LEMMA RemoveProfileKeeps ==
  ASSUME StoreInv, NEW f \in Profile, RemoveProfile(f), req' = req \/ \E r \in Req : Finish(r)
  PROVE  StoreInv'
<1>1. /\ UnlinkProfiles(Passport, {f}) /\ UNCHANGED <<postgres, status>>
      /\ name' = [name EXCEPT ![f] = Gone] /\ name[f] \in Name /\ ~ProfileLocked(f)
  BY DEF RemoveProfile, Exists
<1>2. /\ name' \in [Profile -> Name \cup {None, Gone}] /\ name'[f] = Gone
      /\ \A g \in Profile : g # f => name'[g] = name[g]
      /\ status' \in [Passport -> Status \cup {None}]
  BY <1>1 DEF StoreInv, StoreTyped
<1>3. \A p \in Passport : \A g \in Linked(p) : g \in {f} \/ name'[g] = name[g]
  BY <1>2 DEF Linked
<1>4. RowsSound' /\ \A p \in Passport : Linked(p)' = Linked(p) \ {f}
  BY <1>1, <1>3, UnlinkEffect
<1>5. None # Gone /\ name[f] # None
  BY <1>1, ProfileNames DEF None, Gone
<1>6. Shrinks
  BY <1>1, <1>2, <1>3, <1>4, <1>5 DEF Shrinks
<1> QED
  BY <1>2, <1>4, <1>6, ShrinkKeeps

LEMMA UndoKeeps ==
  ASSUME StoreInv, NEW r \in Req, Undo(r)
  PROVE  StoreInv'
<1>1. PICK f \in Profile : f = req[r].f
  BY RequestNow DEF Undo, At, Shaped
<1>2. CASE Exists(f)
  BY <1>1, <1>2, RemoveProfileKeeps DEF Undo
<1>3. CASE ~Exists(f)
  <2>1. Becomes(r, NoRequest) /\ UNCHANGED store
    BY <1>1, <1>3 DEF Undo, Finish, Becomes, store
  <2> QED
    BY <2>1, NoRequestFits, MovesKeep
<1> QED
  BY <1>2, <1>3

LEMMA DeleteLookKeeps ==
  ASSUME StoreInv, NEW r \in Req, NEW p \in Passport, DeleteLook(r, p)
  PROVE  StoreInv'
<1> DEFINE q == [NoRequest EXCEPT !.stage = "delete", !.p = p, !.orphans = Orphans(p)]
<1>1. Orphans(p) \subseteq Linked(p) /\ Linked(p) \subseteq Profile
  BY DEF Orphans, Linked
<1>2. q \in Request
  BY <1>1 DEF NoRequest, Request, Stage
<1>3. q.stage = "delete" /\ q.p = p /\ q.handler = None /\ q.orphans = Orphans(p)
  BY DEF NoRequest
<1>4. Becomes(r, q) /\ UNCHANGED store
  BY DEF DeleteLook, Begin, Becomes, store
<1> HIDE DEF q
<1>5. \A f \in Orphans(p) : name[f] # None
  BY <1>1, RowsBefore, ProfileNames
<1>6. Fits(q) /\ \A o \in Req : Apart(q, req[o]) /\ Apart(req[o], q)
  BY <1>3, <1>5 DEF DeleteLook, Fits, Shaped, Apart, None
<1> QED
  BY <1>2, <1>4, <1>6, MovesKeep

LEMMA RemovePassportKeeps ==
  ASSUME StoreInv, NEW p \in Passport, NEW orphans \in SUBSET Profile,
         RemovePassport(p, orphans), ~postgres => orphans = Orphans(p),
         ~PassportLocked(p), \A f \in orphans : ~ProfileLocked(f) /\ name[f] # None,
         req' = req \/ \E r \in Req : Finish(r)
  PROVE  StoreInv'
<1>1. /\ RowsSound' /\ Linked(p)' = {}
      /\ \A o \in Passport : o # p => Linked(o)' = Linked(o) \ orphans
  BY RemoveEffect
<1>2. /\ name' = [f \in Profile |-> IF f \in orphans THEN Gone ELSE name[f]]
      /\ status' = [status EXCEPT ![p] = None] /\ postgres' = postgres
  BY DEF RemovePassport
<1>3. /\ name' \in [Profile -> Name \cup {None, Gone}]
      /\ status' \in [Passport -> Status \cup {None}]
      /\ \A o \in Passport : o # p => status'[o] = status[o]
      /\ \A f \in Profile \ orphans : name'[f] = name[f]
      /\ \A f \in orphans : name'[f] = Gone
  BY <1>2 DEF StoreInv, StoreTyped
<1>4. \A o \in Passport : Linked(o)' \subseteq Linked(o) \ orphans
  BY <1>1
<1>5. \A o \in Passport : \A f \in Linked(o)' : name'[f] = name[f]
  BY <1>3, <1>4 DEF Linked
<1>6. Shrinks
  BY <1>2, <1>3, <1>4, <1>5 DEF Shrinks, None, Gone
<1> QED
  BY <1>1, <1>3, <1>6, ShrinkKeeps

LEMMA DeleteWriteKeeps ==
  ASSUME StoreInv, NEW r \in Req, DeleteWrite(r)
  PROVE  StoreInv'
<1>1. PICK p \in Passport, orphans \in SUBSET Profile : req[r].p = p /\ req[r].orphans = orphans
  BY RequestNow, RequestFields DEF DeleteWrite, At, Shaped
<1>2. CASE status[p] = None
  <2>1. Becomes(r, NoRequest) /\ UNCHANGED store
    BY <1>1, <1>2 DEF DeleteWrite, Finish, Becomes, store
  <2> QED
    BY <2>1, NoRequestFits, MovesKeep
<1>3. CASE status[p] # None
  <2>1. RemovePassport(p, orphans) /\ ~PassportLocked(p) /\ Finish(r)
    BY <1>1, <1>3 DEF DeleteWrite
  <2>2. \A f \in orphans : ~ProfileLocked(f) /\ name[f] # None
    BY <1>1, RequestNow DEF DeleteWrite, Fits, At
  <2>3. postgres
    BY RequestNow DEF DeleteWrite, Fits, At
  <2> QED
    BY <2>1, <2>2, <2>3, RemovePassportKeeps
<1> QED
  BY <1>2, <1>3

LEMMA DeleteAtOnceKeeps ==
  ASSUME StoreInv, NEW p \in Passport, DeleteAtOnce(p)
  PROVE  StoreInv'
<1>1. \A r \in Req : ~At(r, "binding")
  BY RequestNow DEF DeleteAtOnce, Fits, StillBindable, At
<1>2. PICK orphans \in SUBSET Profile : orphans = Orphans(p)
  BY DEF Orphans, Linked
<1>3. \A f \in orphans : f \in Linked(p)
  BY <1>2 DEF Orphans
<1>4. \A f \in orphans : name[f] # None
  BY <1>3, RowsBefore, ProfileNames
<1>5. ~PassportLocked(p) /\ \A f \in orphans : ~ProfileLocked(f)
  BY <1>1 DEF PassportLocked, ProfileLocked
<1> QED
  BY <1>2, <1>4, <1>5, RemovePassportKeeps DEF DeleteAtOnce

\* A passport gets a status.
LEMMA StatusKeeps ==
  ASSUME StoreInv, NEW p \in Passport, NEW s \in Status, status' = [status EXCEPT ![p] = s],
         UNCHANGED <<postgres, name, links, primary, req>>
  PROVE  StoreInv'
<1>1. status' \in [Passport -> Status \cup {None}] /\ \A o \in Passport : status[o] # None => status'[o] # None
  BY DEF StoreInv, StoreTyped, Status, None
<1>2. RowsSound' /\ \A o \in Passport : Linked(o)' = Linked(o)
  <2>1. \A o \in Passport : \A f \in Linked(o) : name'[f] \in Name /\ status'[o] # None
    BY <1>1, RowsBefore
  <2>2. \A o \in Passport : \A f, g \in Linked(o) : f # g => name'[f] # name'[g]
    BY RowsBefore
  <2> QED
    BY <2>1, <2>2, NamesEffect
<1>3. ASSUME NEW r \in Req PROVE Fits(req[r])'
  <2>1. req[r] \in Request /\ Fits(req[r]) /\ Shaped(req[r])
    BY RequestNow
  <2>2. CASE At(r, "binding")
    <3>1. PICK o \in Passport : o = req[r].p
      BY <2>1, <2>2 DEF At, Shaped
    <3>2. StillBindable(req[r]) /\ ~At(r, "create") /\ ~At(r, "delete")
      BY <2>1, <2>2 DEF At, Fits
    <3>3. Linked(req[r].p)' = Linked(o)
      BY <1>2, <3>1 DEF Linked
    <3> QED
      BY <1>1, <3>1, <3>2, <3>3, StillFits DEF StillBindable, NameTaken
  <2>3. CASE ~At(r, "binding")
    BY <2>1, <2>3, StillFits DEF Fits, At
  <2> QED
    BY <2>2, <2>3
<1> QED
  BY <1>1, <1>2, <1>3, ChangeKeeps DEF StoreInv, StoreTyped

LEMMA CreatePassportKeeps ==
  ASSUME StoreInv, NEW p \in Passport, CreatePassport(p)
  PROVE  StoreInv'
BY StatusKeeps DEF CreatePassport, Status

LEMMA SetPassportStatusKeeps ==
  ASSUME StoreInv, NEW p \in Passport, NEW s \in Settable, SetPassportStatus(p, s)
  PROVE  StoreInv'
<1>1. s \in Status
  BY ProfilesAssumption
<1> QED
  BY <1>1, StatusKeeps DEF SetPassportStatus

LEMMA CreatePassportProfileKeeps ==
  ASSUME StoreInv, NEW p \in Passport, NEW f \in Profile, NEW n \in Name,
         CreatePassportProfile(p, f, n)
  PROVE  StoreInv'
<1>1. /\ status[p] = None /\ name[f] = None /\ status' = [status EXCEPT ![p] = "active"]
      /\ name' = [name EXCEPT ![f] = n] /\ links' = [links EXCEPT ![p] = {<<f, f>>}]
      /\ primary' = [primary EXCEPT ![p] = {f}] /\ postgres' = postgres /\ req' = req
      /\ \A r \in Req : At(r, "create") => req[r].f # f
  BY DEF CreatePassportProfile, Fresh
<1>2. /\ name' \in [Profile -> Name \cup {None, Gone}]
      /\ name'[f] = n /\ \A g \in Profile : g # f => name'[g] = name[g]
      /\ n # None /\ None \notin Name
  BY <1>1, ProfileNames DEF StoreInv, StoreTyped
<1>3. /\ status' \in [Passport -> Status \cup {None}] /\ status'[p] # None
      /\ \A o \in Passport : o # p => status'[o] = status[o]
  BY <1>1 DEF StoreInv, StoreTyped, Status, None
<1>4. /\ links' \in [Passport -> SUBSET (Profile \X Profile)] /\ links'[p] = {<<f, f>>}
      /\ primary' \in [Passport -> SUBSET Profile] /\ primary'[p] = {f}
      /\ \A o \in Passport : o # p => links'[o] = links[o] /\ primary'[o] = primary[o]
  BY <1>1 DEF StoreInv, StoreTyped
<1>5. Of(links'[p]) = {f} /\ WellOrdered(links'[p])
  BY <1>4, OneLinked
<1>6. \A o \in Passport : \A g \in Linked(o) : g \in Profile /\ g # f /\ name'[g] = name[g]
  BY <1>1, <1>2, RowsBefore
<1>7. ASSUME NEW o \in Passport
      PROVE  /\ WellOrdered(links'[o])
             /\ \A g \in Of(links'[o]) : name'[g] \in Name /\ status'[o] # None
             /\ primary'[o] \subseteq Of(links'[o])
             /\ \A g, h \in primary'[o] : g = h
             /\ ~postgres' /\ Of(links'[o]) # {} => primary'[o] # {}
             /\ \A g, h \in Of(links'[o]) : g # h => name'[g] # name'[h]
  <2>1. CASE o = p
    BY <1>2, <1>3, <1>4, <1>5, <2>1
  <2>2. CASE o # p
    BY <1>1, <1>3, <1>4, <1>6, <2>2, RowsBefore
  <2> QED
    BY <2>1, <2>2
<1>8. RowsSound'
  BY <1>4, <1>7, RowsByPassport
<1>9. ASSUME NEW r \in Req PROVE Fits(req[r])'
  <2>1. req[r] \in Request /\ Fits(req[r]) /\ Shaped(req[r]) /\ req[r].orphans \subseteq Profile
    BY RequestNow, RequestFields
  <2>2. At(r, "create") => name'[req[r].f] = None
    BY <1>1, <1>2, <2>1 DEF Fits, Shaped, At
  <2>3. At(r, "delete") => \A g \in req[r].orphans : name'[g] # None
    BY <1>2, <2>1 DEF Fits, At
  <2>4. ASSUME At(r, "binding")
        PROVE  /\ status'[req[r].p] # None
               /\ name'[req[r].f] = name[req[r].f]
               /\ Linked(req[r].p)' \subseteq Linked(req[r].p)
               /\ \A g \in Linked(req[r].p)' \ {req[r].f} : name'[g] # name[req[r].f]
    <3>1. PICK o \in Passport : o = req[r].p
      BY <2>1, <2>4 DEF At, Shaped
    <3>2. StillBindable(req[r]) /\ req[r].f \in Profile /\ o # p
      BY <1>1, <2>1, <2>4, <3>1 DEF At, Shaped, Fits, StillBindable
    <3>3. name'[req[r].f] = name[req[r].f]
      BY <1>1, <1>2, <3>2 DEF StillBindable, Exists
    <3>4. Linked(req[r].p)' = Linked(o)
      BY <1>1, <1>4, <3>1, <3>2 DEF Linked
    <3>5. \A g \in Linked(o) \ {req[r].f} : name'[g] # name[req[r].f]
      BY <1>6, <3>1, <3>2 DEF StillBindable, NameTaken
    <3> QED
      BY <1>3, <3>1, <3>2, <3>3, <3>4, <3>5 DEF StillBindable
  <2> QED
    BY <1>1, <2>2, <2>3, <2>4, StillFits
<1> QED
  BY <1>1, <1>2, <1>3, <1>8, <1>9, ChangeKeeps DEF StoreInv, StoreTyped

LEMMA RenameKeeps ==
  ASSUME StoreInv, NEW f \in Profile, NEW n \in Name, Rename(f, n)
  PROVE  StoreInv'
<1>1. /\ name[f] \in Name /\ ~ProfileLocked(f) /\ name' = [name EXCEPT ![f] = n]
      /\ \A p \in Passport : f \in Linked(p) => ~PassportLocked(p) /\ ~NameTaken(p, f, n)
      /\ UNCHANGED <<postgres, status, links, primary, req>>
  BY DEF Rename, Exists
<1>2. /\ name' \in [Profile -> Name \cup {None, Gone}]
      /\ name'[f] = n /\ \A g \in Profile : g # f => name'[g] = name[g]
      /\ n # None /\ name[f] # None
  BY <1>1, ProfileNames DEF StoreInv, StoreTyped
<1>3. RowsSound' /\ \A p \in Passport : Linked(p)' = Linked(p)
  <2>1. \A p \in Passport : \A g \in Linked(p) : name'[g] \in Name /\ status'[p] # None
    BY <1>1, <1>2, RowsBefore
  <2>2. \A p \in Passport : f \in Linked(p) => \A g \in Linked(p) : g # f => name[g] # n
    BY <1>1 DEF NameTaken
  <2>3. ASSUME NEW p \in Passport, NEW g \in Linked(p), NEW h \in Linked(p), g # h
        PROVE  name'[g] # name'[h]
    <3>1. g \in Profile /\ h \in Profile /\ name[g] # name[h]
      BY <2>3, RowsBefore
    <3> QED
      BY <1>2, <2>2, <2>3, <3>1
  <2> QED
    BY <1>1, <2>1, <2>3, NamesEffect
<1>4. ASSUME NEW r \in Req PROVE Fits(req[r])'
  <2>1. req[r] \in Request /\ Fits(req[r]) /\ Shaped(req[r]) /\ req[r].orphans \subseteq Profile
    BY RequestNow, RequestFields
  <2>2. At(r, "create") => name'[req[r].f] = None
    BY <1>2, <2>1 DEF Fits, Shaped, At
  <2>3. At(r, "delete") => \A g \in req[r].orphans : name'[g] # None
    BY <1>2, <2>1 DEF Fits, At
  <2>4. ASSUME At(r, "binding")
        PROVE  /\ status'[req[r].p] # None
               /\ name'[req[r].f] = name[req[r].f]
               /\ Linked(req[r].p)' \subseteq Linked(req[r].p)
               /\ \A g \in Linked(req[r].p)' \ {req[r].f} : name'[g] # name[req[r].f]
    <3>1. PICK p \in Passport : p = req[r].p
      BY <2>1, <2>4 DEF At, Shaped
    <3>2. StillBindable(req[r]) /\ req[r].f \in Profile
      BY <2>1, <2>4 DEF At, Shaped, Fits
    <3>3. req[r].f # f /\ f \notin Linked(p)
      BY <1>1, <2>4, <3>1 DEF PassportLocked, ProfileLocked
    <3>4. Linked(req[r].p)' = Linked(p) /\ Linked(p) \subseteq Profile
      BY <1>1, <3>1 DEF Linked
    <3>5. \A g \in Linked(p) \ {req[r].f} : name'[g] # name[req[r].f]
      BY <1>2, <3>1, <3>2, <3>3, <3>4 DEF StillBindable, NameTaken
    <3> QED
      BY <1>1, <1>2, <3>1, <3>2, <3>3, <3>4, <3>5 DEF StillBindable
  <2> QED
    BY <1>1, <2>2, <2>3, <2>4, StillFits
<1> QED
  BY <1>1, <1>2, <1>3, <1>4, ChangeKeeps DEF StoreInv, StoreTyped

LEMMA IdentifyKeeps ==
  ASSUME StoreInv, NEW r \in Req, NEW p \in Passport, NEW f \in Profile, Identify(r, p, f)
  PROVE  StoreInv'
<1> DEFINE q == [NoRequest EXCEPT !.handler = "grant", !.stage = "identified",
                                   !.p = p, !.f = f, !.prime = TRUE]
<1>1. q \in Request
  BY DEF NoRequest, Request, Handler, Stage
<1>2. q.stage = "identified" /\ q.p = p /\ q.f = f /\ q.handler = "grant" /\ q.prime = TRUE
  BY DEF NoRequest
<1>3. Becomes(r, q) /\ UNCHANGED store
  BY DEF Identify, Begin, Becomes, store
<1> HIDE DEF q
<1>4. Shaped(q)
  BY <1>2 DEF Shaped
<1> QED
  BY <1>1, <1>2, <1>3, <1>4, PlainMovesKeep

LEMMA PromoteKeeps ==
  ASSUME StoreInv, NEW r \in Req, Promote(r)
  PROVE  StoreInv'
<1>1. PICK s \in {"promoted", "bind"} : req' = [req EXCEPT ![r].stage = s]
  BY DEF Promote
<1>2. PICK q \in Request : q = req[r]
  BY RequestNow
<1> DEFINE m == [q EXCEPT !.stage = s]
<1>3. m \in Request
  BY DEF Request, Stage
<1>4. m.stage = s /\ m.p = q.p /\ m.f = q.f /\ m.handler = q.handler /\ m.prime = q.prime
  BY DEF Request
<1>5. Becomes(r, m) /\ UNCHANGED store
  BY <1>1, <1>2 DEF Promote, Becomes, store, StoreInv, StoreTyped
<1> HIDE DEF m
<1>6. Shaped(m)
  BY <1>2, <1>4, RequestNow DEF Promote, At, Shaped
<1> QED
  BY <1>3, <1>4, <1>5, <1>6, PlainMovesKeep

LEMMA SaveGrantKeeps ==
  ASSUME StoreInv, NEW r \in Req, SaveGrant(r)
  PROVE  StoreInv'
<1>1. Becomes(r, NoRequest) /\ UNCHANGED store
  BY DEF SaveGrant, Finish, Becomes, store
<1> QED
  BY <1>1, NoRequestFits, MovesKeep

LEMMA InitStore ==
  ASSUME Init
  PROVE  StoreInv
<1>1. StoreTyped
  BY NoRequestFits DEF Init, StoreTyped
<1>2. \A r \in Req : req[r] = NoRequest
  BY DEF Init
<1>3. RequestsFit /\ RequestsApart
  BY <1>2, NoRequestFits DEF RequestsFit, RequestsApart
<1>4. \A p \in Passport : links[p] = {} /\ primary[p] = {} /\ Linked(p) = {}
  BY DEF Init, Linked
<1>5. LinksSound /\ NamesDistinct
  BY <1>4, NoneLinked DEF LinksSound, NamesDistinct
<1> QED
  BY <1>1, <1>3, <1>5 DEF StoreInv

LEMMA StoreStep ==
  ASSUME StoreInv, Next
  PROVE  StoreInv'
<1>1. CASE \E r \in Req : RequestNext(r)
  <2>1. PICK r \in Req : RequestNext(r)
    BY <1>1
  <2>2. CASE BindNext(r) \/ BindWrite(r) \/ CreateInsert(r) \/ Undo(r) \/ DeleteWrite(r)
    BY <2>2, BindNextKeeps, BindWriteKeeps, CreateInsertKeeps, UndoKeeps, DeleteWriteKeeps
  <2>3. CASE Promote(r) \/ SaveGrant(r)
    BY <2>3, PromoteKeeps, SaveGrantKeeps
  <2>4. CASE \E p \in Passport, f \in Profile : \E h \in Creators, n \in Name :
                CreateCheck(r, h, p, f, n)
    BY <2>4, CreateCheckKeeps
  <2>5. CASE \E p \in Passport, f \in Profile :
                Identify(r, p, f) \/ \E prime \in BOOLEAN : AdminBind(r, p, f, prime)
    BY <2>5, IdentifyKeeps, AdminBindKeeps
  <2>6. CASE \E p \in Passport : DeleteLook(r, p)
    BY <2>6, DeleteLookKeeps
  <2> QED
    BY <2>1, <2>2, <2>3, <2>4, <2>5, <2>6 DEF RequestNext, Creators
<1>2. CASE \E p \in Passport, f \in Profile : Unbind(p, f)
  BY <1>2, UnbindKeeps
<1>3. CASE \E f \in Profile : UnbindAll(f) \/ DeleteProfile(f) \/ \E n \in Name : Rename(f, n)
  BY <1>3, UnbindAllKeeps, RemoveProfileKeeps, RenameKeeps DEF DeleteProfile
<1>4. CASE \E p \in Passport : DeleteAtOnce(p) \/ CreatePassport(p)
  BY <1>4, DeleteAtOnceKeeps, CreatePassportKeeps
<1>5. CASE \E p \in Passport, f \in Profile, n \in Name : CreatePassportProfile(p, f, n)
  BY <1>5, CreatePassportProfileKeeps
<1>6. CASE \E p \in Passport, s \in Settable : SetPassportStatus(p, s)
  BY <1>6, SetPassportStatusKeeps
<1> QED
  BY <1>1, <1>2, <1>3, <1>4, <1>5, <1>6 DEF Next

--------------------------------------------------------------------------------
(***************************************************************************)
(* The limit.  A handler that is past the check counts as the profile it   *)
(* will link.                                                              *)
(***************************************************************************)
LimitInv ==
    /\ owned \in [Passport -> SUBSET Profile]
    /\ most \in [Passport -> 0..Cardinality(Req)]
    /\ \A p \in Passport :
          /\ owned[p] \subseteq Linked(p)
          /\ Cardinality(Creating(p)) <= most[p]
          /\ Cardinality(owned[p]) + Cardinality(Creating(p)) <= Max - 1 + most[p]

LEMMA CreatingFinite ==
  ASSUME NEW p \in Passport
  PROVE  /\ IsFiniteSet(Creating(p)) /\ Cardinality(Creating(p)) \in Nat
         /\ Cardinality(Creating(p)) <= Cardinality(Req) /\ Cardinality(Req) \in Nat
<1>1. Creating(p) \subseteq Req /\ IsFiniteSet(Req)
  BY ProfilesAssumption DEF Creating
<1> QED
  BY <1>1, FS_Subset, FS_CardinalityType

LEMMA OwnedFinite ==
  ASSUME StoreInv, LimitInv, NEW p \in Passport
  PROVE  /\ IsFiniteSet(Linked(p)) /\ IsFiniteSet(owned[p])
         /\ Cardinality(owned[p]) \in Nat /\ Cardinality(Linked(p)) \in Nat
         /\ Cardinality(owned[p]) <= Cardinality(Linked(p))
<1>1. IsFiniteSet(Linked(p)) /\ owned[p] \subseteq Linked(p)
  BY RowsBefore DEF WellOrdered, LimitInv
<1> QED
  BY <1>1, FS_Subset, FS_CardinalityType

\* Whoever creates a profile did so before.
CreatorsStay ==
    \A o \in Req : req'[o].handler \in Players =>
        req'[o].handler = req[o].handler /\ req'[o].p = req[o].p

LEMMA CreatingShrinks ==
  ASSUME CreatorsStay, NEW p \in Passport
  PROVE  Creating(p)' \subseteq Creating(p) /\ Cardinality(Creating(p)') <= Cardinality(Creating(p))
         /\ Cardinality(Creating(p)') \in Nat
<1>1. Creating(p)' \subseteq Creating(p)
  BY DEF CreatorsStay, Creating, Players
<1> QED
  BY <1>1, CreatingFinite, FS_Subset, FS_CardinalityType

LEMMA LimitShrinks ==
  ASSUME StoreInv, LimitInv, most' = most, owned' \in [Passport -> SUBSET Profile],
         \A p \in Passport : owned'[p] \subseteq owned[p] /\ owned'[p] \subseteq Linked(p)',
         CreatorsStay
  PROVE  LimitInv'
<1>1. ASSUME NEW p \in Passport
      PROVE  /\ Cardinality(Creating(p)') <= most[p]
             /\ Cardinality(owned'[p]) + Cardinality(Creating(p)') <= Max - 1 + most[p]
  <2>1. /\ Cardinality(Creating(p)) <= most[p] /\ most[p] \in Nat /\ Max \in Nat
        /\ Cardinality(owned[p]) + Cardinality(Creating(p)) <= Max - 1 + most[p]
    BY ProfilesAssumption, CreatingFinite DEF LimitInv
  <2>2. /\ Cardinality(Creating(p)') <= Cardinality(Creating(p)) /\ Cardinality(Creating(p)') \in Nat
        /\ Cardinality(Creating(p)) \in Nat
    BY CreatingShrinks, CreatingFinite
  <2>3. /\ Cardinality(owned'[p]) <= Cardinality(owned[p]) /\ Cardinality(owned'[p]) \in Nat
        /\ Cardinality(owned[p]) \in Nat
    BY OwnedFinite, FS_Subset, FS_CardinalityType
  <2> QED
    BY <2>1, <2>2, <2>3
<1>2. \A p \in Passport : Cardinality(Creating(p))' = Cardinality(Creating(p)')
  OBVIOUS
<1> QED
  BY <1>1, <1>2 DEF LimitInv

\* A handler that was counted links its profile.
LEMMA LimitSpends ==
  ASSUME StoreInv, LimitInv, most' = most, NEW r \in Req, NEW q, Binds(q), q = req[r],
         q.handler \in Players, owned' = [owned EXCEPT ![q.p] = owned[q.p] \cup {q.f}],
         CreatorsStay, req'[r].handler \notin Players,
         Linked(q.p)' = Linked(q.p) \cup {q.f},
         \A o \in Passport : o # q.p => Linked(o)' = Linked(o)
  PROVE  LimitInv'
<1>1. PICK p \in Passport, f \in Profile : p = q.p /\ f = q.f
  BY DEF Binds
<1>2. /\ owned' \in [Passport -> SUBSET Profile] /\ owned'[p] = owned[p] \cup {f}
      /\ \A o \in Passport : o # p => owned'[o] = owned[o]
  BY <1>1 DEF LimitInv
<1>3. r \in Creating(p) /\ Creating(p)' \subseteq Creating(p) \ {r}
  BY <1>1, CreatingShrinks DEF Creating, Players
<1>4. ASSUME NEW o \in Passport
      PROVE  /\ owned'[o] \subseteq Linked(o)'
             /\ Cardinality(Creating(o)') <= most[o]
             /\ Cardinality(owned'[o]) + Cardinality(Creating(o)') <= Max - 1 + most[o]
  <2>1. /\ Cardinality(Creating(o)) <= most[o] /\ most[o] \in Nat /\ Max \in Nat
        /\ Cardinality(owned[o]) + Cardinality(Creating(o)) <= Max - 1 + most[o]
        /\ owned[o] \subseteq Linked(o)
    BY ProfilesAssumption, CreatingFinite DEF LimitInv
  <2>2. /\ Cardinality(Creating(o)') <= Cardinality(Creating(o)) /\ Cardinality(Creating(o)') \in Nat
        /\ Cardinality(Creating(o)) \in Nat /\ IsFiniteSet(Creating(o))
    BY CreatingShrinks, CreatingFinite
  <2>3. Cardinality(owned[o]) \in Nat /\ IsFiniteSet(owned[o])
    BY OwnedFinite
  <2>4. CASE o = p
    <3>1. Cardinality(Creating(p)') <= Cardinality(Creating(p)) - 1
      <4>1. Cardinality(Creating(p) \ {r}) = Cardinality(Creating(p)) - 1
        BY <1>3, <2>2, <2>4, FS_RemoveElement
      <4>2. Cardinality(Creating(p)') <= Cardinality(Creating(p) \ {r})
        BY <1>3, <2>2, <2>4, FS_Subset
      <4> QED
        BY <4>1, <4>2
    <3>2. Cardinality(owned'[p]) <= Cardinality(owned[p]) + 1 /\ Cardinality(owned'[p]) \in Nat
      <4>1. Cardinality(owned[p]) \in Nat /\ IsFiniteSet(owned[p])
        BY <2>3, <2>4
      <4>2. \/ Cardinality(owned[p] \cup {f}) = Cardinality(owned[p])
            \/ Cardinality(owned[p] \cup {f}) = Cardinality(owned[p]) + 1
        BY <4>1, FS_AddElement
      <4>3. Cardinality(owned'[p]) = Cardinality(owned[p] \cup {f})
        BY <1>2
      <4> QED
        BY <4>1, <4>2, <4>3
    <3> QED
      BY <1>1, <1>2, <2>1, <2>2, <2>3, <2>4, <3>1, <3>2
  <2>5. CASE o # p
    BY <1>1, <1>2, <2>1, <2>2, <2>3, <2>5
  <2> QED
    BY <2>4, <2>5
<1>5. \A o \in Passport : Cardinality(Creating(o))' = Cardinality(Creating(o)')
  OBVIOUS
<1> QED
  BY <1>2, <1>4, <1>5 DEF LimitInv

\* One more handler finds room.
LEMMA LimitCounts ==
  ASSUME StoreInv, LimitInv, NEW r \in Req, NEW h \in Creators, NEW p \in Passport,
         NEW f \in Profile, NEW n \in Name, CreateCheck(r, h, p, f, n)
  PROVE  LimitInv'
<1> DEFINE q == [NoRequest EXCEPT !.handler = h, !.stage = "create", !.p = p, !.f = f,
                                   !.n = n, !.prime = (h = "nodeCreate")]
<1>1. q \in Request
  BY DEF Creators, NoRequest, Request, Handler, Stage
<1>2. q.p = p /\ q.handler = h
  BY DEF NoRequest
<1>3. Becomes(r, q) /\ req[r] = NoRequest
  BY DEF CreateCheck, Begin, Becomes, Idle
<1> HIDE DEF q
<1>4. req'[r] = q /\ \A o \in Req : o # r => req'[o] = req[o]
  BY <1>1, <1>3, BecomesOne
<1>5. req[r].handler \notin Players
  BY <1>3, NoRequestFits DEF Players, None
<1>6. /\ owned' = owned /\ links' = links
      /\ most' = [most EXCEPT ![p] = IF Cardinality(Creating(p)') > most[p] THEN most[p] + 1 ELSE most[p]]
  BY DEF CreateCheck
<1>7. \A o \in Passport : Linked(o)' = Linked(o)
  BY <1>6 DEF Linked
<1>8. \A o \in Passport : most[o] \in Nat /\ most[o] <= Cardinality(Req)
  BY CreatingFinite DEF LimitInv
<1>9. CASE h \notin Players
  <2>1. \A o \in Passport : Creating(o)' = Creating(o)
    BY <1>2, <1>4, <1>5, <1>9 DEF Creating, Players
  <2>2. most' = most
    BY <1>6, <1>8, <2>1, CreatingFinite DEF LimitInv
  <2>3. CreatorsStay
    BY <1>2, <1>4, <1>9 DEF CreatorsStay
  <2> QED
    BY <1>6, <1>7, <2>2, <2>3, LimitShrinks DEF LimitInv
<1>10. CASE h \in Players
  <2>1. Creating(p)' = Creating(p) \cup {r} /\ r \notin Creating(p)
    BY <1>2, <1>4, <1>5, <1>10 DEF Creating, Players
  <2>2. \A o \in Passport : o # p => Creating(o)' = Creating(o)
    BY <1>2, <1>4, <1>5 DEF Creating, Players
  <2>3. /\ Cardinality(Creating(p)') = Cardinality(Creating(p)) + 1
        /\ Cardinality(Creating(p)') <= Cardinality(Req)
    <3>1. Creating(p)' \subseteq Req
      BY DEF Creating
    <3> QED
      BY <2>1, <3>1, CreatingFinite, FS_AddElement, FS_Subset, ProfilesAssumption
  <2>4. /\ most'[p] \in 0..Cardinality(Req) /\ most'[p] >= Cardinality(Creating(p)')
        /\ \A o \in Passport : o # p => most'[o] = most[o]
        /\ most' \in [Passport -> 0..Cardinality(Req)]
    <3>1. PICK m \in 0..Cardinality(Req) :
             m = (IF Cardinality(Creating(p)') > most[p] THEN most[p] + 1 ELSE most[p])
             /\ m >= Cardinality(Creating(p)')
      BY <1>8, <2>3, CreatingFinite DEF LimitInv
    <3>2. most' = [most EXCEPT ![p] = m]
      BY <1>6, <3>1
    <3> QED
      BY <3>1, <3>2 DEF LimitInv
  <2>5. /\ Cardinality(owned[p]) \in Nat /\ Cardinality(owned[p]) <= Max - 1
        /\ Max \in Nat
    <3>1. Cardinality(Linked(p)) < Max
      BY <1>10 DEF CreateCheck, HasRoom, Players
    <3> QED
      BY <3>1, OwnedFinite, ProfilesAssumption
  <2>6. ASSUME NEW o \in Passport
        PROVE  /\ owned'[o] \subseteq Linked(o)'
               /\ Cardinality(Creating(o)') <= most'[o]
               /\ Cardinality(owned'[o]) + Cardinality(Creating(o)') <= Max - 1 + most'[o]
    <3>1. CASE o = p
      <4>1. Cardinality(Creating(p)') \in Nat /\ most'[p] \in Nat
        BY <2>3, <2>4, CreatingFinite
      <4> QED
        BY <1>6, <1>7, <2>4, <2>5, <3>1, <4>1 DEF LimitInv
    <3>2. CASE o # p
      BY <1>6, <1>7, <2>2, <2>4, <3>2 DEF LimitInv
    <3> QED
      BY <3>1, <3>2
  <2>7. \A o \in Passport : Cardinality(Creating(o))' = Cardinality(Creating(o)')
    OBVIOUS
  <2> QED
    BY <1>6, <2>4, <2>6, <2>7 DEF LimitInv
<1> QED
  BY <1>9, <1>10

--------------------------------------------------------------------------------
(***************************************************************************)
(* Grants.  From the promotion to the grant a request holds the mutex of   *)
(* its passport, so no other grant's promotion comes in between.           *)
(***************************************************************************)
Holding == {"bind", "binding", "promoted"}

Holds(q) == q.handler = "grant" /\ q.stage \in Holding

GrantInv ==
    /\ mutex \in [Passport -> Req \cup {None}]
    /\ disturbed \subseteq Req
    /\ \A r \in Req : Holds(req[r]) => mutex[req[r].p] = r
    /\ GrantMatchesPrimary

\* No request takes the mutex or gives it back, and what was promoted is as
\* promoted as before, is disturbed, or was promoted now.
LEMMA GrantStays ==
  ASSUME GrantInv, mutex' = mutex, disturbed' \subseteq Req, disturbed \subseteq disturbed',
         \A o \in Req : Holds(req'[o]) => Holds(req[o]) /\ req'[o].p = req[o].p,
         \A o \in Req : req'[o].stage = "promoted" =>
            \/ o \in disturbed'
            \/ /\ req'[o] = req[o]
               /\ links'[req[o].p] = links[req[o].p] /\ primary'[req[o].p] = primary[req[o].p]
            \/ primary'[req'[o].p] = {req'[o].f}
            \/ Resolves(req[o].p, req[o].f)'
  PROVE  GrantInv'
<1>1. ASSUME NEW o \in Req, req'[o].stage = "promoted"
      PROVE  Resolves(req[o].p, req[o].f)' \/ o \in disturbed'
  <2>1. CASE o \in disturbed'
    BY <2>1
  <2>2. CASE /\ o \notin disturbed' /\ req'[o] = req[o]
             /\ links'[req[o].p] = links[req[o].p] /\ primary'[req[o].p] = primary[req[o].p]
    <3>1. Resolves(req[o].p, req[o].f)
      BY <1>1, <2>2 DEF GrantInv, GrantMatchesPrimary, At
    <3> QED
      BY <2>2, <3>1 DEF Resolves, Oldest, Linked
  <2>3. CASE primary'[req'[o].p] = {req'[o].f}
    BY <2>3 DEF Resolves
  <2>4. CASE Resolves(req[o].p, req[o].f)'
    BY <2>4
  <2> QED
    BY <1>1, <2>1, <2>2, <2>3, <2>4
<1>2. GrantMatchesPrimary'
  BY <1>1 DEF GrantMatchesPrimary, At
<1> QED
  BY <1>2 DEF GrantInv

\* A profile that a passport resolves to is its only primary one, or the
\* oldest of a passport that has none.
LEMMA ResolvesTo ==
  ASSUME StoreInv, NEW p \in Passport, NEW f, Resolves(p, f)
  PROVE  /\ f \in Linked(p)
         /\ primary[p] = {f} \/ (primary[p] = {} /\ \A g \in Linked(p) : <<f, g>> \in links[p])
<1>1. primary[p] \subseteq Linked(p) /\ \A g, h \in primary[p] : g = h
  BY RowsBefore
<1> QED
  BY <1>1 DEF Resolves, Oldest

\* The links of other profiles go: the passport resolves to the same one.
LEMMA ResolvesStill ==
  ASSUME StoreInv, NEW p \in Passport, NEW f, NEW gone, Resolves(p, f), f \notin gone,
         links'[p] = Without(p, gone),
         primary[p] \cap gone = {} => primary'[p] = primary[p]
  PROVE  Resolves(p, f)'
<1>1. /\ f \in Linked(p)
      /\ primary[p] = {f} \/ (primary[p] = {} /\ \A g \in Linked(p) : <<f, g>> \in links[p])
  BY ResolvesTo
<1>2. primary'[p] = primary[p]
  BY <1>1
<1>3. \A g, h : <<g, h>> \in links'[p] <=> <<g, h>> \in links[p] /\ g \notin gone /\ h \notin gone
  BY DEF Without
<1>4. Linked(p)' = Linked(p) \ gone
  BY <1>3 DEF Linked
<1>5. CASE primary[p] = {f}
  BY <1>2, <1>5 DEF Resolves
<1>6. CASE primary[p] = {} /\ \A g \in Linked(p) : <<f, g>> \in links[p]
  <2>1. f \in Linked(p)' /\ \A g \in Linked(p)' : <<f, g>> \in links'[p]
    BY <1>1, <1>3, <1>4, <1>6
  <2> QED
    BY <1>2, <1>6, <2>1 DEF Resolves, Oldest
<1> QED
  BY <1>1, <1>5, <1>6

\* A grant whose profile keeps its link matches as before, the others are
\* disturbed.
LEMMA GrantUnlinked ==
  ASSUME StoreInv, GrantInv, mutex' = mutex, disturbed' \subseteq Req,
         disturbed \subseteq disturbed', NEW gone,
         \A o \in Req : Holds(req'[o]) => Holds(req[o]) /\ req'[o].p = req[o].p,
         \A o \in Req : req'[o].stage = "promoted" => req'[o] = req[o],
         \A o \in Req : At(o, "promoted") /\ o \notin disturbed' =>
            \/ /\ req[o].f \notin gone
               /\ links'[req[o].p] = Without(req[o].p, gone)
               /\ primary[req[o].p] \cap gone = {} => primary'[req[o].p] = primary[req[o].p]
            \/ links'[req[o].p] = links[req[o].p] /\ primary'[req[o].p] = primary[req[o].p]
  PROVE  GrantInv'
<1>1. ASSUME NEW o \in Req, req'[o].stage = "promoted", o \notin disturbed'
      PROVE  \/ /\ links'[req[o].p] = links[req[o].p] /\ primary'[req[o].p] = primary[req[o].p]
             \/ Resolves(req[o].p, req[o].f)'
  <2>1. req'[o] = req[o] /\ At(o, "promoted") /\ o \notin disturbed
    BY <1>1 DEF At
  <2>2. req[o].p \in Passport
    BY <2>1, RequestNow DEF At, Shaped
  <2>3. Resolves(req[o].p, req[o].f)
    BY <2>1 DEF GrantInv, GrantMatchesPrimary
  <2>4. CASE /\ req[o].f \notin gone
             /\ links'[req[o].p] = Without(req[o].p, gone)
             /\ primary[req[o].p] \cap gone = {} => primary'[req[o].p] = primary[req[o].p]
    <3>1. PICK p, f : p = req[o].p /\ f = req[o].f /\ p \in Passport
      BY <2>2
    <3>2. Resolves(p, f)'
      BY <2>3, <2>4, <3>1, ResolvesStill
    <3> QED
      BY <2>1, <3>1, <3>2 DEF Resolves, Oldest, Linked
  <2> QED
    BY <1>1, <2>1, <2>4
<1> QED
  BY <1>1, GrantStays

\* Links, primaries, mutexes and histories are as they were; a request moves
\* that is no creator and holds nothing.
LEMMA AsideKeeps ==
  ASSUME StoreInv, LimitInv, GrantInv, UNCHANGED <<links, primary, mutex, owned, most, disturbed>>,
         CreatorsStay,
         \A o \in Req : Holds(req'[o]) => Holds(req[o]) /\ req'[o].p = req[o].p,
         \A o \in Req : req'[o].stage = "promoted" => req'[o] = req[o]
  PROVE  LimitInv' /\ GrantInv'
<1>1. \A p \in Passport : Linked(p)' = Linked(p)
  BY DEF Linked
<1>2. LimitInv'
  BY <1>1, LimitShrinks DEF LimitInv
<1>3. GrantInv'
  BY GrantStays DEF GrantInv
<1> QED
  BY <1>2, <1>3

\* The request that moves begins, ends, or goes on where it holds nothing.
LEMMA MoveStays ==
  ASSUME StoreInv, NEW r \in Req, NEW m \in Request, Becomes(r, m),
         m.handler \in Players => m.handler = req[r].handler /\ m.p = req[r].p,
         ~Holds(m), m.stage # "promoted"
  PROVE  /\ CreatorsStay
         /\ \A o \in Req : Holds(req'[o]) => Holds(req[o]) /\ req'[o].p = req[o].p
         /\ \A o \in Req : req'[o].stage = "promoted" => req'[o] = req[o]
<1>1. req'[r] = m /\ \A o \in Req : o # r => req'[o] = req[o]
  BY BecomesOne
<1> QED
  BY <1>1 DEF CreatorsStay

LEMMA NoRequestStays ==
  ASSUME StoreInv, req' = req \/ \E r \in Req : Finish(r)
  PROVE  /\ CreatorsStay
         /\ \A o \in Req : Holds(req'[o]) => Holds(req[o]) /\ req'[o].p = req[o].p
         /\ \A o \in Req : req'[o].stage = "promoted" => req'[o] = req[o]
<1>1. CASE req' = req
  BY <1>1 DEF CreatorsStay
<1>2. CASE \E r \in Req : Finish(r)
  <2>1. PICK r \in Req : Becomes(r, NoRequest)
    BY <1>2 DEF Finish, Becomes
  <2>2. NoRequest.handler \notin Players /\ ~Holds(NoRequest) /\ NoRequest.stage # "promoted"
    BY NoRequestFits DEF Players, Holds, None
  <2> QED
    BY <2>1, <2>2, NoRequestFits, MoveStays
<1> QED
  BY <1>1, <1>2

--------------------------------------------------------------------------------
(***************************************************************************)
(* Every action keeps LimitInv and GrantInv.                               *)
(***************************************************************************)
LEMMA UnlinkRest ==
  ASSUME StoreInv, LimitInv, GrantInv, NEW from \in SUBSET Passport, NEW gone,
         UnlinkProfiles(from, gone),
         \A p \in Passport : Linked(p)' = IF p \in from THEN Linked(p) \ gone ELSE Linked(p),
         most' = most, mutex' = mutex,
         req' = req \/ \E r \in Req : Finish(r)
  PROVE  LimitInv' /\ GrantInv'
<1>1. owned' = [p \in Passport |-> IF p \in from THEN owned[p] \ gone ELSE owned[p]]
  BY DEF UnlinkProfiles
<1>2. owned' \in [Passport -> SUBSET Profile]
  BY <1>1 DEF LimitInv
<1>3. \A p \in Passport : owned'[p] \subseteq owned[p] /\ owned'[p] \subseteq Linked(p)'
  BY <1>1 DEF LimitInv
<1>4. LimitInv'
  BY <1>2, <1>3, NoRequestStays, LimitShrinks
<1>5. disturbed' = disturbed \cup Unlinked(from, gone)
  BY DEF UnlinkProfiles
<1>6. disturbed' \subseteq Req /\ disturbed \subseteq disturbed'
  BY <1>5 DEF GrantInv, Unlinked
<1>7. ASSUME NEW o \in Req, At(o, "promoted"), o \notin disturbed'
      PROVE  \/ /\ req[o].f \notin gone
                /\ links'[req[o].p] = Without(req[o].p, gone)
                /\ primary[req[o].p] \cap gone = {} => primary'[req[o].p] = primary[req[o].p]
             \/ links'[req[o].p] = links[req[o].p] /\ primary'[req[o].p] = primary[req[o].p]
  <2>1. PICK p \in Passport : p = req[o].p
    BY <1>7, RequestNow DEF At, Shaped
  <2>2. /\ links'[p] = IF p \in from THEN Without(p, gone) ELSE links[p]
        /\ primary'[p] = IF p \in from /\ primary[p] \cap gone # {}
                         THEN Oldest(p, gone) ELSE primary[p]
    BY DEF UnlinkProfiles
  <2>3. p \in from => req[o].f \notin gone
    BY <1>5, <1>7, <2>1 DEF Unlinked
  <2> QED
    BY <2>1, <2>2, <2>3
<1>8. GrantInv'
  BY <1>6, <1>7, NoRequestStays, GrantUnlinked
<1> QED
  BY <1>4, <1>8

LEMMA UnbindRest ==
  ASSUME StoreInv, LimitInv, GrantInv, NEW p \in Passport, NEW f \in Profile, Unbind(p, f)
  PROVE  LimitInv' /\ GrantInv'
<1>1. UnlinkProfiles({p}, {f}) /\ UNCHANGED <<postgres, status, name, most, mutex, req>>
  BY DEF Unbind
<1>2. \A o \in Passport : Linked(o)' = IF o \in {p} THEN Linked(o) \ {f} ELSE Linked(o)
  BY <1>1, UnlinkEffect
<1> QED
  BY <1>1, <1>2, UnlinkRest DEF Unbind

LEMMA UnbindAllRest ==
  ASSUME StoreInv, LimitInv, GrantInv, NEW f \in Profile, UnbindAll(f)
  PROVE  LimitInv' /\ GrantInv'
<1>1. UnlinkProfiles(Passport, {f}) /\ UNCHANGED <<postgres, status, name, most, mutex, req>>
  BY DEF UnbindAll
<1>2. \A o \in Passport : Linked(o)' = IF o \in Passport THEN Linked(o) \ {f} ELSE Linked(o)
  BY <1>1, UnlinkEffect
<1> QED
  BY <1>1, <1>2, UnlinkRest DEF UnbindAll

LEMMA RemoveProfileRest ==
  ASSUME StoreInv, LimitInv, GrantInv, NEW f \in Profile, RemoveProfile(f),
         req' = req \/ \E r \in Req : Finish(r)
  PROVE  LimitInv' /\ GrantInv'
<1>1. /\ UnlinkProfiles(Passport, {f}) /\ name' = [name EXCEPT ![f] = Gone]
      /\ UNCHANGED <<postgres, status, most, mutex>>
  BY DEF RemoveProfile
<1>2. \A p \in Passport : \A g \in Linked(p) : g \in {f} \/ name'[g] = name[g]
  BY <1>1 DEF Linked, StoreInv, StoreTyped
<1>3. \A o \in Passport : Linked(o)' = IF o \in Passport THEN Linked(o) \ {f} ELSE Linked(o)
  BY <1>1, <1>2, UnlinkEffect
<1> QED
  BY <1>1, <1>3, UnlinkRest

LEMMA RemovePassportRest ==
  ASSUME StoreInv, LimitInv, GrantInv, NEW p \in Passport, NEW orphans \in SUBSET Profile,
         RemovePassport(p, orphans), ~postgres => orphans = Orphans(p),
         req' = req \/ \E r \in Req : Finish(r)
  PROVE  LimitInv' /\ GrantInv'
<1>1. /\ Linked(p)' = {}
      /\ \A o \in Passport : o # p => Linked(o)' = Linked(o) \ orphans
  BY RemoveEffect
<1>2. /\ owned' = [o \in Passport |-> IF o = p THEN {} ELSE owned[o] \ orphans]
      /\ most' = most /\ mutex' = mutex
      /\ links' = [o \in Passport |-> IF o = p THEN {} ELSE Without(o, orphans)]
      /\ primary' = [o \in Passport |-> IF o = p THEN {} ELSE primary[o] \ orphans]
      /\ disturbed' = disturbed \cup Unlinked({p}, Profile) \cup Unlinked(Passport, orphans)
  BY DEF RemovePassport
<1>3. owned' \in [Passport -> SUBSET Profile]
  BY <1>2 DEF LimitInv
<1>4. \A o \in Passport : owned'[o] \subseteq owned[o] /\ owned'[o] \subseteq Linked(o)'
  BY <1>1, <1>2 DEF LimitInv
<1>5. LimitInv'
  BY <1>2, <1>3, <1>4, NoRequestStays, LimitShrinks
<1>6. disturbed' \subseteq Req /\ disturbed \subseteq disturbed'
  BY <1>2 DEF GrantInv, Unlinked
<1>7. ASSUME NEW o \in Req, At(o, "promoted"), o \notin disturbed'
      PROVE  /\ req[o].f \notin orphans
             /\ links'[req[o].p] = Without(req[o].p, orphans)
             /\ primary[req[o].p] \cap orphans = {} => primary'[req[o].p] = primary[req[o].p]
  <2>1. PICK q \in Passport, f \in Profile : q = req[o].p /\ f = req[o].f
    BY <1>7, RequestNow DEF At, Shaped
  <2>2. q # p /\ f \notin orphans
    BY <1>2, <1>7, <2>1 DEF Unlinked
  <2>3. links'[q] = Without(q, orphans) /\ primary'[q] = primary[q] \ orphans
    BY <1>2, <2>2
  <2> QED
    BY <2>1, <2>2, <2>3
<1>8. /\ \A o \in Req : Holds(req'[o]) => Holds(req[o]) /\ req'[o].p = req[o].p
      /\ \A o \in Req : req'[o].stage = "promoted" => req'[o] = req[o]
  BY NoRequestStays
<1>9. mutex' = mutex
  BY <1>2
<1>10. GrantInv'
  BY <1>6, <1>7, <1>8, <1>9, GrantUnlinked
<1> QED
  BY <1>5, <1>10

LEMMA UndoRest ==
  ASSUME StoreInv, LimitInv, GrantInv, NEW r \in Req, Undo(r)
  PROVE  LimitInv' /\ GrantInv'
<1>1. PICK f \in Profile : f = req[r].f
  BY RequestNow DEF Undo, At, Shaped
<1>2. CASE Exists(f)
  BY <1>1, <1>2, RemoveProfileRest DEF Undo
<1>3. CASE ~Exists(f)
  BY <1>1, <1>3, NoRequestStays, AsideKeeps DEF Undo
<1> QED
  BY <1>2, <1>3

LEMMA DeleteWriteRest ==
  ASSUME StoreInv, LimitInv, GrantInv, NEW r \in Req, DeleteWrite(r)
  PROVE  LimitInv' /\ GrantInv'
<1>1. PICK p \in Passport, orphans \in SUBSET Profile : req[r].p = p /\ req[r].orphans = orphans
  BY RequestNow, RequestFields DEF DeleteWrite, At, Shaped
<1>2. CASE status[p] = None
  BY <1>1, <1>2, NoRequestStays, AsideKeeps DEF DeleteWrite
<1>3. CASE status[p] # None
  <2>1. RemovePassport(p, orphans) /\ Finish(r)
    BY <1>1, <1>3 DEF DeleteWrite
  <2>2. postgres
    BY RequestNow DEF DeleteWrite, Fits, At
  <2> QED
    BY <2>1, <2>2, RemovePassportRest
<1> QED
  BY <1>2, <1>3

LEMMA DeleteAtOnceRest ==
  ASSUME StoreInv, LimitInv, GrantInv, NEW p \in Passport, DeleteAtOnce(p)
  PROVE  LimitInv' /\ GrantInv'
<1>1. PICK orphans \in SUBSET Profile : orphans = Orphans(p)
  BY DEF Orphans, Linked
<1> QED
  BY <1>1, RemovePassportRest DEF DeleteAtOnce

LEMMA RowsAsideRest ==
  ASSUME StoreInv, LimitInv, GrantInv,
         UNCHANGED <<links, primary, mutex, req, owned, most, disturbed>>
  PROVE  LimitInv' /\ GrantInv'
BY NoRequestStays, AsideKeeps

LEMMA CreatePassportProfileRest ==
  ASSUME StoreInv, LimitInv, GrantInv, NEW p \in Passport, NEW f \in Profile, NEW n \in Name,
         CreatePassportProfile(p, f, n)
  PROVE  LimitInv' /\ GrantInv'
<1>1. /\ status[p] = None /\ links' = [links EXCEPT ![p] = {<<f, f>>}]
      /\ primary' = [primary EXCEPT ![p] = {f}]
      /\ UNCHANGED <<mutex, req, owned, most, disturbed>>
  BY DEF CreatePassportProfile
<1>2. Linked(p) = {} /\ primary[p] = {} /\ owned[p] = {}
  <2>1. Linked(p) = {}
    BY <1>1, RowsBefore
  <2> QED
    BY <2>1, RowsBefore DEF LimitInv
<1>3. \A o \in Passport : o # p =>
         links'[o] = links[o] /\ primary'[o] = primary[o] /\ Linked(o)' = Linked(o)
  BY <1>1 DEF StoreInv, StoreTyped, Linked
<1>4. \A o \in Passport : owned'[o] \subseteq owned[o] /\ owned'[o] \subseteq Linked(o)'
  BY <1>1, <1>2, <1>3 DEF LimitInv
<1>5. LimitInv'
  BY <1>1, <1>4, NoRequestStays, LimitShrinks DEF LimitInv
<1>6. ASSUME NEW r \in Req, req[r].stage = "promoted", r \notin disturbed
      PROVE  req[r].p \in Passport /\ req[r].p # p
  <2>1. req[r].p \in Passport /\ Resolves(req[r].p, req[r].f)
    BY <1>6, RequestNow DEF GrantInv, GrantMatchesPrimary, At, Shaped
  <2>2. ~Resolves(p, req[r].f)
    BY <1>2 DEF Resolves, Oldest
  <2> QED
    BY <2>1, <2>2
<1>7. GrantInv'
  BY <1>1, <1>3, <1>6, GrantStays DEF GrantInv
<1> QED
  BY <1>5, <1>7

LEMMA CreateInsertRest ==
  ASSUME StoreInv, LimitInv, GrantInv, NEW r \in Req, CreateInsert(r)
  PROVE  LimitInv' /\ GrantInv'
<1>1. PICK q \in Request : q = req[r]
  BY RequestNow
<1> DEFINE m == [q EXCEPT !.stage = "bind", !.n = None]
<1>2. m \in Request
  BY DEF Request, Stage
<1>3. m.stage = "bind" /\ m.p = q.p /\ m.handler = q.handler
  BY DEF Request
<1>4. Becomes(r, m) /\ UNCHANGED <<links, primary, mutex, owned, most, disturbed>>
  BY <1>1 DEF CreateInsert, Becomes, StoreInv, StoreTyped
<1> HIDE DEF m
<1>5. ~Holds(m) /\ m.stage # "promoted"
  BY <1>1, <1>3, RequestNow DEF CreateInsert, At, Shaped, Creators, Holds
<1> QED
  BY <1>1, <1>2, <1>3, <1>4, <1>5, MoveStays, AsideKeeps

LEMMA CreateCheckRest ==
  ASSUME StoreInv, LimitInv, GrantInv, NEW r \in Req, NEW h \in Creators, NEW p \in Passport,
         NEW f \in Profile, NEW n \in Name, CreateCheck(r, h, p, f, n)
  PROVE  LimitInv' /\ GrantInv'
<1> DEFINE q == [NoRequest EXCEPT !.handler = h, !.stage = "create", !.p = p, !.f = f,
                                   !.n = n, !.prime = (h = "nodeCreate")]
<1>1. q \in Request
  BY DEF Creators, NoRequest, Request, Handler, Stage
<1>2. q.stage = "create"
  BY DEF NoRequest
<1>3. Becomes(r, q) /\ UNCHANGED <<links, primary, mutex, disturbed>>
  BY DEF CreateCheck, Begin, Becomes
<1> HIDE DEF q
<1>4. req'[r] = q /\ \A o \in Req : o # r => req'[o] = req[o]
  BY <1>1, <1>3, BecomesOne
<1>5. GrantInv'
  BY <1>2, <1>3, <1>4, GrantStays DEF GrantInv, Holds, Holding
<1> QED
  BY <1>5, LimitCounts

LEMMA IdentifyRest ==
  ASSUME StoreInv, LimitInv, GrantInv, NEW r \in Req, NEW p \in Passport, NEW f \in Profile,
         Identify(r, p, f)
  PROVE  LimitInv' /\ GrantInv'
<1> DEFINE q == [NoRequest EXCEPT !.handler = "grant", !.stage = "identified",
                                   !.p = p, !.f = f, !.prime = TRUE]
<1>1. q \in Request
  BY DEF NoRequest, Request, Handler, Stage
<1>2. q.stage = "identified" /\ q.handler = "grant"
  BY DEF NoRequest
<1>3. Becomes(r, q) /\ UNCHANGED <<links, primary, mutex, owned, most, disturbed>>
  BY DEF Identify, Begin, Becomes
<1> HIDE DEF q
<1>4. q.handler \notin Players /\ ~Holds(q) /\ q.stage # "promoted"
  BY <1>2 DEF Players, Holds, Holding
<1> QED
  BY <1>1, <1>3, <1>4, MoveStays, AsideKeeps

LEMMA DeleteLookRest ==
  ASSUME StoreInv, LimitInv, GrantInv, NEW r \in Req, NEW p \in Passport, DeleteLook(r, p)
  PROVE  LimitInv' /\ GrantInv'
<1> DEFINE q == [NoRequest EXCEPT !.stage = "delete", !.p = p, !.orphans = Orphans(p)]
<1>1. q \in Request
  BY DEF NoRequest, Request, Stage, Orphans, Linked
<1>2. q.stage = "delete" /\ q.handler = None
  BY DEF NoRequest
<1>3. Becomes(r, q) /\ UNCHANGED <<links, primary, mutex, owned, most, disturbed>>
  BY DEF DeleteLook, Begin, Becomes
<1> HIDE DEF q
<1>4. q.handler \notin Players /\ ~Holds(q) /\ q.stage # "promoted"
  BY <1>2 DEF Players, Holds, None
<1> QED
  BY <1>1, <1>3, <1>4, MoveStays, AsideKeeps

\* Two that hold the mutex of one passport are the same.
LEMMA OneHolds ==
  ASSUME StoreInv, GrantInv, NEW r \in Req, NEW o \in Req, Holds(req[r]), Holds(req[o]), o # r
  PROVE  req[o].p \in Passport /\ req[r].p \in Passport /\ req[o].p # req[r].p
BY RequestNow DEF GrantInv, Holds, Holding, Shaped

LEMMA PromoteRest ==
  ASSUME StoreInv, LimitInv, GrantInv, NEW r \in Req, Promote(r)
  PROVE  LimitInv' /\ GrantInv'
<1>1. PICK q \in Request : q = req[r]
  BY RequestNow
<1>2. PICK p \in Passport, f \in Profile : p = q.p /\ f = q.f /\ q.handler = "grant"
  BY <1>1, RequestNow DEF Promote, At, Shaped
<1>3. PICK s \in {"promoted", "bind"} :
         req' = [req EXCEPT ![r].stage = s] /\ (s = "promoted" => Resolves(p, f))
  BY <1>1, <1>2 DEF Promote
<1> DEFINE m == [q EXCEPT !.stage = s]
<1>4. m \in Request
  BY DEF Request, Stage
<1>5. m.stage = s /\ m.p = p /\ m.f = f /\ m.handler = "grant"
  BY <1>2 DEF Request
<1>6. Becomes(r, m)
  BY <1>1, <1>3 DEF Becomes, StoreInv, StoreTyped
<1> HIDE DEF m
<1>7. req'[r] = m /\ \A o \in Req : o # r => req'[o] = req[o]
  BY <1>4, <1>6, BecomesOne
<1>8. /\ mutex[p] = None /\ mutex' = [mutex EXCEPT ![p] = r]
      /\ UNCHANGED <<links, primary, owned, most, disturbed>>
  BY <1>1, <1>2 DEF Promote
<1>9. LimitInv'
  <2>1. CreatorsStay
    BY <1>5, <1>7 DEF CreatorsStay, Players
  <2>2. \A o \in Passport : Linked(o)' = Linked(o)
    BY <1>8 DEF Linked
  <2> QED
    BY <1>8, <2>1, <2>2, LimitShrinks DEF LimitInv
<1>10. /\ mutex' \in [Passport -> Req \cup {None}] /\ mutex'[p] = r
       /\ \A o \in Passport : o # p => mutex'[o] = mutex[o]
  BY <1>8 DEF GrantInv
<1>11. ASSUME NEW o \in Req, Holds(req'[o]) PROVE mutex'[req'[o].p] = o
  <2>1. CASE o = r
    BY <1>5, <1>7, <1>10, <2>1
  <2>2. CASE o # r
    <3>1. Holds(req[o]) /\ req'[o] = req[o]
      BY <1>7, <1>11, <2>2
    <3>2. req[o].p \in Passport /\ mutex[req[o].p] = o
      BY <3>1, RequestNow DEF GrantInv, Holds, Holding, Shaped
    <3> QED
      BY <1>8, <1>10, <3>1, <3>2, ProfileNames
  <2> QED
    BY <2>1, <2>2
<1>12. ASSUME NEW o \in Req, req'[o].stage = "promoted"
       PROVE  Resolves(req[o].p, req[o].f)' \/ o \in disturbed'
  <2>1. CASE o = r
    <3>1. Resolves(p, f)
      BY <1>3, <1>5, <1>7, <1>12, <2>1
    <3>2. req'[o].p = p /\ req'[o].f = f
      BY <1>5, <1>7, <2>1
    <3> QED
      BY <1>8, <3>1, <3>2 DEF Resolves, Oldest, Linked
  <2>2. CASE o # r
    <3>1. req'[o] = req[o]
      BY <1>7, <2>2
    <3>2. Resolves(req[o].p, req[o].f) \/ o \in disturbed
      BY <1>12, <3>1 DEF GrantInv, GrantMatchesPrimary, At
    <3> QED
      BY <1>8, <3>1, <3>2 DEF Resolves, Oldest, Linked
  <2> QED
    BY <2>1, <2>2
<1>13. GrantMatchesPrimary'
  BY <1>12 DEF GrantMatchesPrimary, At
<1> QED
  BY <1>8, <1>9, <1>10, <1>11, <1>13 DEF GrantInv

LEMMA SaveGrantRest ==
  ASSUME StoreInv, LimitInv, GrantInv, NEW r \in Req, SaveGrant(r)
  PROVE  LimitInv' /\ GrantInv'
<1>1. PICK p \in Passport : p = req[r].p /\ Holds(req[r])
  BY RequestNow DEF SaveGrant, At, Shaped, Holds, Holding
<1>2. /\ Becomes(r, NoRequest) /\ mutex' = [mutex EXCEPT ![p] = None]
      /\ disturbed' = disturbed \ {r} /\ UNCHANGED <<links, primary, owned, most>>
  BY <1>1 DEF SaveGrant, Finish, Becomes
<1>3. req'[r] = NoRequest /\ \A o \in Req : o # r => req'[o] = req[o]
  BY <1>2, NoRequestFits, BecomesOne
<1>4. LimitInv'
  <2>1. CreatorsStay
    BY <1>3, NoRequestFits DEF CreatorsStay, Players, None
  <2>2. \A o \in Passport : Linked(o)' = Linked(o)
    BY <1>2 DEF Linked
  <2> QED
    BY <1>2, <2>1, <2>2, LimitShrinks DEF LimitInv
<1>5. /\ mutex' \in [Passport -> Req \cup {None}]
      /\ \A o \in Passport : o # p => mutex'[o] = mutex[o]
  BY <1>2 DEF GrantInv
<1>6. ~Holds(req'[r]) /\ req'[r].stage # "promoted"
  BY <1>3, NoRequestFits DEF Holds, None
<1>7. ASSUME NEW o \in Req, Holds(req'[o]) PROVE mutex'[req'[o].p] = o
  <2>1. o # r /\ req'[o] = req[o]
    BY <1>3, <1>6, <1>7
  <2>2. req[o].p \in Passport /\ req[o].p # p
    BY <1>1, <1>7, <2>1, OneHolds
  <2> QED
    BY <1>5, <1>7, <2>1, <2>2 DEF GrantInv
<1>8. ASSUME NEW o \in Req, req'[o].stage = "promoted"
      PROVE  Resolves(req[o].p, req[o].f)' \/ o \in disturbed'
  <2>1. o # r /\ req'[o] = req[o]
    BY <1>3, <1>6, <1>8
  <2>2. Resolves(req[o].p, req[o].f) \/ o \in disturbed
    BY <1>8, <2>1 DEF GrantInv, GrantMatchesPrimary, At
  <2> QED
    BY <1>2, <2>1, <2>2 DEF Resolves, Oldest, Linked
<1>9. GrantMatchesPrimary'
  BY <1>8 DEF GrantMatchesPrimary, At
<1> QED
  BY <1>2, <1>4, <1>5, <1>7, <1>9 DEF GrantInv

\* Who calls a bind: a request that came to it, or an administrator's.
Calls(r, q) ==
    /\ Binds(q)
    /\ \/ q = req[r] /\ q.stage \in {"bind", "binding"}
       \/ Idle(r) /\ q.handler = "bind"

LEMMA CallersStay ==
  ASSUME StoreInv, GrantInv, NEW r \in Req, NEW q \in Request, Calls(r, q), NEW done \in BOOLEAN,
         AfterBind(r, q, done)
  PROVE  /\ CreatorsStay
         /\ req'[r].handler \notin Players
         /\ \A o \in Req : Holds(req'[o]) => Holds(req[o]) /\ req'[o].p = req[o].p
         /\ \A o \in Req : o # r => req'[o] = req[o]
         /\ req'[r].stage = "promoted" =>
               q.handler = "grant" /\ req'[r].p = q.p /\ req'[r].f = q.f
<1>1. PICK m \in Request :
         /\ Becomes(r, m) /\ m.handler \notin Players
         /\ m.handler = "grant" \/ m.stage = "promoted" =>
               q.handler = "grant" /\ m.stage = "promoted" /\ m.p = q.p /\ m.f = q.f
  BY AfterBindMoves DEF Calls
<1>2. req'[r] = m /\ \A o \in Req : o # r => req'[o] = req[o]
  BY <1>1, BecomesOne
<1>3. q.handler = "grant" => q = req[r] /\ Holds(req[r])
  BY DEF Calls, Holds, Holding
<1> QED
  BY <1>1, <1>2, <1>3 DEF CreatorsStay, Holds

\* The bind did not come about.
LEMMA BindFailsRest ==
  ASSUME StoreInv, LimitInv, GrantInv, NEW r \in Req, NEW q \in Request, Calls(r, q),
         AfterBind(r, q, FALSE), disturbed' = disturbed \cup IF q.handler = "grant" THEN {r} ELSE {},
         UNCHANGED <<links, primary, mutex, owned, most>>
  PROVE  LimitInv' /\ GrantInv'
<1>1. disturbed' = IF q.handler = "grant" THEN disturbed \cup {r} ELSE disturbed
  OBVIOUS
<1>2. /\ CreatorsStay
      /\ \A o \in Req : Holds(req'[o]) => Holds(req[o]) /\ req'[o].p = req[o].p
      /\ \A o \in Req : o # r => req'[o] = req[o]
      /\ req'[r].stage = "promoted" => q.handler = "grant"
  BY CallersStay
<1>3. \A p \in Passport : Linked(p)' = Linked(p)
  BY DEF Linked
<1>4. LimitInv'
  BY <1>2, <1>3, LimitShrinks DEF LimitInv
<1>5. \A o \in Req : req'[o].stage = "promoted" => o \in disturbed' \/ req'[o] = req[o]
  BY <1>1, <1>2
<1>6. disturbed' \subseteq Req /\ disturbed \subseteq disturbed'
  BY <1>1 DEF GrantInv
<1>7. GrantInv'
  BY <1>2, <1>5, <1>6, GrantStays
<1> QED
  BY <1>4, <1>7

\* A bind leaves the passport to the profile it resolved to, if it makes that
\* one primary or another one not.
LEMMA LinkResolves ==
  ASSUME StoreInv, NEW p \in Passport, NEW f \in Profile, NEW prime \in BOOLEAN, NEW g \in Profile,
         LinkProfile(p, f, prime), Resolves(p, g), prime => g = f, ~prime => g # f
  PROVE  Resolves(p, g)'
<1>1. /\ links' \in [Passport -> SUBSET (Profile \X Profile)]
      /\ primary' \in [Passport -> SUBSET Profile]
      /\ WellOrdered(links'[p])
      /\ Linked(p)' = Linked(p) \cup {f}
      /\ primary'[p] = IF prime THEN {f} ELSE primary[p] \ {f}
      /\ \A o \in Passport : o # p => links'[o] = links[o] /\ primary'[o] = primary[o]
  BY LinkRows
<1>2. CASE prime
  BY <1>1, <1>2 DEF Resolves
<1>3. CASE ~prime
  <2>1. /\ g # f /\ g \in Linked(p)
        /\ primary[p] = {g} \/ (primary[p] = {} /\ \A h \in Linked(p) : <<g, h>> \in links[p])
    BY <1>3, ResolvesTo
  <2>2. CASE primary[p] = {g}
    BY <1>1, <1>3, <2>1, <2>2 DEF Resolves
  <2>3. CASE primary[p] = {} /\ \A h \in Linked(p) : <<g, h>> \in links[p]
    <3>1. links'[p] = IF f \in Linked(p) THEN links[p]
                                        ELSE links[p] \cup ((Linked(p) \cup {f}) \X {f})
      BY DEF LinkProfile, StoreInv, StoreTyped
    <3>2. \A h \in Linked(p)' : <<g, h>> \in links'[p]
      BY <1>1, <2>1, <2>3, <3>1
    <3>3. primary'[p] = {} /\ g \in Linked(p)'
      BY <1>1, <1>3, <2>1, <2>3
    <3> QED
      BY <3>2, <3>3 DEF Resolves, Oldest
  <2> QED
    BY <2>1, <2>2, <2>3
<1> QED
  BY <1>2, <1>3

\* The link is written.
LEMMA LinkRest ==
  ASSUME StoreInv, LimitInv, GrantInv, NEW r \in Req, NEW q \in Request, Calls(r, q),
         NEW prime \in BOOLEAN, q.handler = "grant" => prime,
         LinkProfile(q.p, q.f, prime), AfterBind(r, q, TRUE),
         owned' = [owned EXCEPT ![q.p] = Owning(q)],
         disturbed' = disturbed \cup Displaced(q, prime), UNCHANGED <<most, mutex>>
  PROVE  LimitInv' /\ GrantInv'
<1>1. PICK p \in Passport, f \in Profile : p = q.p /\ f = q.f
  BY DEF Calls, Binds
<1>2. /\ Linked(p)' = Linked(p) \cup {f}
      /\ prime => primary'[p] = {f}
      /\ \A o \in Passport : o # p =>
            links'[o] = links[o] /\ primary'[o] = primary[o] /\ Linked(o)' = Linked(o)
  <2>1. LinkProfile(p, f, prime)
    BY <1>1
  <2>2. /\ Linked(p)' = Linked(p) \cup {f}
        /\ primary'[p] = IF prime THEN {f} ELSE primary[p] \ {f}
    BY <2>1, LinkRows
  <2>3. \A o \in Passport : o # p => links'[o] = links[o] /\ primary'[o] = primary[o]
    BY <2>1, LinkRows
  <2> QED
    BY <2>2, <2>3 DEF Linked
<1>3. /\ CreatorsStay /\ req'[r].handler \notin Players
      /\ \A o \in Req : Holds(req'[o]) => Holds(req[o]) /\ req'[o].p = req[o].p
      /\ \A o \in Req : o # r => req'[o] = req[o]
      /\ req'[r].stage = "promoted" =>
            q.handler = "grant" /\ req'[r].p = q.p /\ req'[r].f = q.f
  BY CallersStay
<1>4. LimitInv'
  <2>1. CASE q.handler \in Players
    <3>1. q = req[r] /\ Binds(q)
      BY <2>1 DEF Calls, Players
    <3>2. owned' = [owned EXCEPT ![q.p] = owned[q.p] \cup {q.f}]
      BY <2>1 DEF Owning, Players
    <3>3. Linked(q.p)' = Linked(q.p) \cup {q.f} /\ \A o \in Passport : o # q.p => Linked(o)' = Linked(o)
      BY <1>1, <1>2
    <3> QED
      BY <1>3, <2>1, <3>1, <3>2, <3>3, LimitSpends
  <2>2. CASE q.handler \notin Players
    <3>1. owned' = owned
      BY <1>1, <2>2 DEF Owning, Players, LimitInv
    <3>2. \A o \in Passport : Linked(o) \subseteq Linked(o)'
      BY <1>2
    <3> QED
      BY <1>3, <3>1, <3>2, LimitShrinks DEF LimitInv
  <2> QED
    BY <2>1, <2>2
<1>5. GrantInv'
  <2>1. CASE q.handler = "grant"
    <3>1. disturbed' = disturbed
      BY <2>1 DEF Displaced
    <3>2. primary'[p] = {f}
      BY <1>2, <2>1
    <3>3. q = req[r] /\ Holds(req[r])
      BY <2>1 DEF Calls, Holds, Holding
    <3>4. ASSUME NEW o \in Req, req'[o].stage = "promoted"
          PROVE  \/ /\ req'[o] = req[o]
                    /\ links'[req[o].p] = links[req[o].p] /\ primary'[req[o].p] = primary[req[o].p]
                 \/ primary'[req'[o].p] = {req'[o].f}
      <4>1. CASE o = r
        BY <1>1, <1>3, <3>2, <3>4, <4>1
      <4>2. CASE o # r
        <5>1. req'[o] = req[o] /\ req[o].stage = "promoted"
          BY <1>3, <3>4, <4>2
        <5>2. Holds(req[o])
          BY <5>1, RequestNow DEF Holds, Holding, Shaped
        <5>3. req[o].p \in Passport /\ req[o].p # p
          BY <1>1, <3>3, <4>2, <5>2, OneHolds
        <5> QED
          BY <1>2, <5>1, <5>3
      <4> QED
        BY <4>1, <4>2
    <3> QED
      BY <1>3, <3>1, <3>4, GrantStays DEF GrantInv
  <2>2. CASE q.handler # "grant"
    <3>1. disturbed' \subseteq Req /\ disturbed \subseteq disturbed'
      BY DEF Displaced, GrantInv
    <3>2. \A o \in Req : req'[o].stage = "promoted" => o # r /\ req'[o] = req[o]
      BY <1>3, <2>2
    <3>3. ASSUME NEW o \in Req, req'[o].stage = "promoted", o \notin disturbed'
          PROVE  \/ links'[req[o].p] = links[req[o].p] /\ primary'[req[o].p] = primary[req[o].p]
                 \/ Resolves(req[o].p, req[o].f)'
      <4>1. req'[o] = req[o] /\ At(o, "promoted") /\ o \notin disturbed
        BY <3>1, <3>2, <3>3 DEF At
      <4>2. PICK n \in Passport, g \in Profile : n = req[o].p /\ g = req[o].f
        BY <4>1, RequestNow DEF At, Shaped
      <4>3. Resolves(n, g)
        BY <4>1, <4>2 DEF GrantInv, GrantMatchesPrimary
      <4>4. CASE n # p
        BY <1>2, <4>2, <4>4
      <4>5. CASE n = p
        <5>1. (prime => g = f) /\ (~prime => g # f)
          BY <1>1, <2>2, <3>3, <4>1, <4>2, <4>5 DEF Displaced
        <5>2. LinkProfile(p, f, prime) /\ Resolves(p, g)
          BY <1>1, <4>3, <4>5
        <5>3. Resolves(p, g)'
          BY <5>1, <5>2, LinkResolves
        <5>4. Resolves(req[o].p, req[o].f)'
          BY <4>1, <4>2, <4>5, <5>3 DEF Resolves, Oldest, Linked
        <5> QED
          BY <5>4
      <4> QED
        BY <4>4, <4>5
    <3> QED
      BY <1>3, <3>1, <3>2, <3>3, GrantStays
  <2> QED
    BY <2>1, <2>2
<1> QED
  BY <1>4, <1>5

LEMMA BindRest ==
  ASSUME StoreInv, LimitInv, GrantInv, NEW r \in Req, NEW q \in Request, Calls(r, q), Bind(r, q)
  PROVE  LimitInv' /\ GrantInv'
<1>1. UNCHANGED <<postgres, status, name, most, mutex>>
  BY DEF Bind
<1>2. q.prime \in BOOLEAN /\ Binds(q) /\ q \in Request
  BY RequestFields DEF Calls, Binds
<1>3. PICK prime \in BOOLEAN : prime = BindsPrimary(q.p, q.f, q.prime)
  BY <1>2 DEF BindsPrimary
<1>4. CASE ~Bindable(q.p, q.f)
  <2>1. /\ AfterBind(r, q, FALSE) /\ UNCHANGED <<links, primary, owned>>
        /\ disturbed' = disturbed \cup IF q.handler = "grant" THEN {r} ELSE {}
    BY <1>4 DEF Bind
  <2> QED
    BY <1>1, <2>1, BindFailsRest
<1>5. CASE Bindable(q.p, q.f) /\ postgres
  <2> DEFINE m == [q EXCEPT !.stage = "binding", !.prime = prime]
  <2>1. m \in Request
    BY <1>2 DEF Request, Stage
  <2>2. m.stage = "binding" /\ m.p = q.p /\ m.handler = q.handler
    BY <1>2 DEF Request
  <2>3. Becomes(r, m) /\ UNCHANGED <<links, primary, owned, disturbed>>
    BY <1>3, <1>5 DEF Bind, Becomes
  <2> HIDE DEF m
  <2>4. req'[r] = m /\ \A o \in Req : o # r => req'[o] = req[o]
    BY <2>1, <2>3, BecomesOne
  <2>5. (q = req[r] /\ q.stage \in {"bind", "binding"}) \/ q.handler = "bind"
    BY DEF Calls
  <2>6. CreatorsStay
    BY <2>2, <2>4, <2>5 DEF CreatorsStay, Players
  <2>7. \A o \in Req : Holds(req'[o]) => Holds(req[o]) /\ req'[o].p = req[o].p
    BY <2>2, <2>4, <2>5 DEF Holds, Holding
  <2>8. \A o \in Req : req'[o].stage = "promoted" => req'[o] = req[o]
    BY <2>2, <2>4
  <2> QED
    BY <1>1, <2>3, <2>6, <2>7, <2>8, AsideKeeps
<1>6. CASE Bindable(q.p, q.f) /\ ~postgres
  <2>1. /\ LinkProfile(q.p, q.f, prime) /\ AfterBind(r, q, TRUE)
        /\ owned' = [owned EXCEPT ![q.p] = Owning(q)]
        /\ disturbed' = disturbed \cup Displaced(q, prime)
    BY <1>3, <1>6 DEF Bind
  <2>2. q.handler = "grant" => prime
    BY <1>2, <1>3 DEF BindsPrimary, Binds
  <2> QED
    BY <1>1, <2>1, <2>2, LinkRest
<1> QED
  BY <1>4, <1>5, <1>6

LEMMA BindNextRest ==
  ASSUME StoreInv, LimitInv, GrantInv, NEW r \in Req, BindNext(r)
  PROVE  LimitInv' /\ GrantInv'
<1>1. req[r] \in Request /\ Calls(r, req[r]) /\ Bind(r, req[r])
  BY RequestNow DEF BindNext, At, Calls, Binds, Shaped
<1> QED
  BY <1>1, BindRest

LEMMA AdminBindRest ==
  ASSUME StoreInv, LimitInv, GrantInv, NEW r \in Req, NEW p \in Passport, NEW f \in Profile,
         NEW prime \in BOOLEAN, AdminBind(r, p, f, prime)
  PROVE  LimitInv' /\ GrantInv'
<1> DEFINE q == [NoRequest EXCEPT !.handler = "bind", !.p = p, !.f = f, !.prime = prime]
<1>1. q \in Request /\ Binds(q) /\ q.handler = "bind"
  BY DEF Binds, NoRequest, Request, Handler
<1>2. Bind(r, q) /\ Idle(r)
  BY DEF AdminBind
<1> HIDE DEF q
<1>3. Calls(r, q)
  BY <1>1, <1>2 DEF Calls
<1> QED
  BY <1>1, <1>2, <1>3, BindRest

LEMMA BindWriteRest ==
  ASSUME StoreInv, LimitInv, GrantInv, NEW r \in Req, BindWrite(r)
  PROVE  LimitInv' /\ GrantInv'
<1>1. req[r] \in Request /\ Shaped(req[r])
  BY RequestNow
<1>2. Calls(r, req[r]) /\ req[r].prime \in BOOLEAN
  BY <1>1, RequestFields DEF BindWrite, At, Calls, Binds, Shaped
<1>3. req[r].handler = "grant" => req[r].prime
  BY <1>1 DEF Shaped
<1>4. /\ LinkProfile(req[r].p, req[r].f, req[r].prime) /\ AfterBind(r, req[r], TRUE)
      /\ owned' = [owned EXCEPT ![req[r].p] = Owning(req[r])]
      /\ disturbed' = disturbed \cup Displaced(req[r], req[r].prime)
      /\ UNCHANGED <<most, mutex>>
  BY DEF BindWrite
<1> QED
  BY <1>1, <1>2, <1>3, <1>4, LinkRest

LEMMA InitRest ==
  ASSUME Init
  PROVE  LimitInv /\ GrantInv
<1>1. \A r \in Req : req[r] = NoRequest /\ req[r].handler = None /\ req[r].stage = None
  BY NoRequestFits DEF Init
<1>2. \A p \in Passport : owned[p] = {} /\ most[p] = 0 /\ Creating(p) = {}
  BY <1>1 DEF Init, Creating, None
<1>3. Cardinality({}) = 0 /\ Cardinality(Req) \in Nat /\ Max \in Nat \ {0}
  BY FS_EmptySet, FS_CardinalityType, ProfilesAssumption
<1>4. 0 \in 0..Cardinality(Req)
  BY <1>3
<1>5. owned \in [Passport -> SUBSET Profile] /\ most \in [Passport -> 0..Cardinality(Req)]
  BY <1>4 DEF Init
<1>6. LimitInv
  <2>1. ASSUME NEW p \in Passport
        PROVE  /\ owned[p] \subseteq Linked(p)
               /\ Cardinality(Creating(p)) <= most[p]
               /\ Cardinality(owned[p]) + Cardinality(Creating(p)) <= Max - 1 + most[p]
    <3>1. Cardinality(owned[p]) = 0 /\ Cardinality(Creating(p)) = 0 /\ most[p] = 0
      BY <1>2, <1>3
    <3>2. owned[p] \subseteq Linked(p)
      BY <1>2
    <3> QED
      BY <1>3, <3>1, <3>2
  <2> QED
    BY <1>5, <2>1 DEF LimitInv
<1>7. \A r \in Req : ~Holds(req[r]) /\ ~At(r, "promoted")
  BY <1>1 DEF Holds, At, None
<1>8. GrantInv
  BY <1>7 DEF Init, GrantInv, GrantMatchesPrimary
<1> QED
  BY <1>6, <1>8

LEMMA RestStep ==
  ASSUME StoreInv, LimitInv, GrantInv, Next
  PROVE  LimitInv' /\ GrantInv'
<1>1. CASE \E r \in Req : RequestNext(r)
  <2>1. PICK r \in Req : RequestNext(r)
    BY <1>1
  <2>2. CASE BindNext(r) \/ BindWrite(r) \/ CreateInsert(r) \/ Undo(r) \/ DeleteWrite(r)
    BY <2>2, BindNextRest, BindWriteRest, CreateInsertRest, UndoRest, DeleteWriteRest
  <2>3. CASE Promote(r) \/ SaveGrant(r)
    BY <2>3, PromoteRest, SaveGrantRest
  <2>4. CASE \E p \in Passport, f \in Profile : \E h \in Creators, n \in Name :
                CreateCheck(r, h, p, f, n)
    BY <2>4, CreateCheckRest
  <2>5. CASE \E p \in Passport, f \in Profile :
                Identify(r, p, f) \/ \E prime \in BOOLEAN : AdminBind(r, p, f, prime)
    BY <2>5, IdentifyRest, AdminBindRest
  <2>6. CASE \E p \in Passport : DeleteLook(r, p)
    BY <2>6, DeleteLookRest
  <2> QED
    BY <2>1, <2>2, <2>3, <2>4, <2>5, <2>6 DEF RequestNext, Creators
<1>2. CASE \E p \in Passport, f \in Profile : Unbind(p, f)
  BY <1>2, UnbindRest
<1>3. CASE \E f \in Profile : UnbindAll(f) \/ DeleteProfile(f) \/ \E n \in Name : Rename(f, n)
  BY <1>3, UnbindAllRest, RemoveProfileRest, RowsAsideRest DEF DeleteProfile, Rename
<1>4. CASE \E p \in Passport : DeleteAtOnce(p) \/ CreatePassport(p)
  BY <1>4, DeleteAtOnceRest, RowsAsideRest DEF CreatePassport
<1>5. CASE \E p \in Passport, f \in Profile, n \in Name : CreatePassportProfile(p, f, n)
  BY <1>5, CreatePassportProfileRest
<1>6. CASE \E p \in Passport, s \in Settable : SetPassportStatus(p, s)
  BY <1>6, RowsAsideRest DEF SetPassportStatus
<1> QED
  BY <1>1, <1>2, <1>3, <1>4, <1>5, <1>6 DEF Next

--------------------------------------------------------------------------------
(***************************************************************************)
(* Theorems.                                                               *)
(***************************************************************************)
ProfilesInv == StoreInv /\ LimitInv /\ GrantInv

LEMMA StutterKeeps ==
  ASSUME ProfilesInv, UNCHANGED vars
  PROVE  ProfilesInv'
<1>1. UNCHANGED store /\ UNCHANGED <<links, primary, mutex, req, owned, most, disturbed>>
  BY DEF vars, store
<1>2. LimitInv' /\ GrantInv'
  BY <1>1, RowsAsideRest DEF ProfilesInv
<1>3. StoreInv'
  <2>1. \A p \in Passport : Linked(p)' = Linked(p)
    BY <1>1 DEF Linked
  <2>2. StoreTyped' /\ RequestsApart'
    BY <1>1 DEF ProfilesInv, StoreInv, StoreTyped, RequestsApart, store
  <2>3. LinksSound' /\ NamesDistinct'
    BY <1>1, <2>1 DEF ProfilesInv, StoreInv, LinksSound, NamesDistinct, Exists, store
  <2>4. RequestsFit'
    BY <1>1 DEF ProfilesInv, StoreInv, RequestsFit, Fits, Shaped, StillBindable, Exists,
                NameTaken, Linked, store
  <2> QED
    BY <2>2, <2>3, <2>4 DEF StoreInv
<1> QED
  BY <1>2, <1>3 DEF ProfilesInv

LEMMA ProfilesInvariant == Spec => []ProfilesInv
<1>1. Init => ProfilesInv
  BY InitStore, InitRest DEF ProfilesInv
<1>2. ProfilesInv /\ [Next]_vars => ProfilesInv'
  <2>1. ASSUME ProfilesInv, Next PROVE ProfilesInv'
    BY <2>1, StoreStep, RestStep DEF ProfilesInv
  <2> QED
    BY <2>1, StutterKeeps
<1> QED
  BY <1>1, <1>2, PTL DEF Spec

\* The rows, the requests under way and the histories have their types,
\* whatever the handlers of profiles, passports and grants do.
THEOREM ProfilesTyped == Spec => []TypeOK
<1>1. ProfilesInv => TypeOK
  BY DEF ProfilesInv, StoreInv, StoreTyped, LimitInv, GrantInv, TypeOK
<1> QED
  BY <1>1, ProfilesInvariant, PTL

\* Two profiles of one passport never share a name, although the name is
\* looked for and taken in different statements (BindProfileToPassport), by
\* any number of requests at once: the rows a bind has locked keep others from
\* taking the name, or the profile, in between.
THEOREM NamesStayDistinct == Spec => []NamesDistinct
<1>1. ProfilesInv => NamesDistinct
  BY DEF ProfilesInv, StoreInv
<1> QED
  BY <1>1, ProfilesInvariant, PTL

\* Links join passports and profiles that exist, a passport has at most one
\* primary profile, one of its own, and without a database it has one as soon
\* as it has profiles: through binding, unbinding, deleting and taking back.
THEOREM LinksStayConsistent == Spec => []LinksConsistent
<1>1. ProfilesInv => LinksConsistent
  BY AtMostOne DEF ProfilesInv, StoreInv, LinksSound, LinksConsistent
<1> QED
  BY <1>1, ProfilesInvariant, PTL

\* The limit is checked long before a profile is linked, so players exceed it;
\* for every limit and any number of requests they exceed it by no more than
\* they asked for at once, less one.
THEOREM PlayersStayBounded == Spec => []ProfilesBounded
<1>1. ASSUME ProfilesInv, NEW p \in Passport
      PROVE  Cardinality(owned[p]) <= Max - 1 + most[p]
  <2>1. /\ Cardinality(owned[p]) + Cardinality(Creating(p)) <= Max - 1 + most[p]
        /\ most[p] \in Nat /\ Max \in Nat /\ Cardinality(owned[p]) \in Nat
        /\ Cardinality(Creating(p)) \in Nat
    BY <1>1, OwnedFinite, CreatingFinite, ProfilesAssumption DEF ProfilesInv, LimitInv
  <2> QED
    BY <2>1
<1>2. ProfilesInv => ProfilesBounded
  BY <1>1 DEF ProfilesBounded
<1> QED
  BY <1>2, ProfilesInvariant, PTL

\* Between promoteGrantProfilePrimary and SaveTransferGrant the passport
\* resolves to the profile that was picked: no other grant's promotion comes in
\* between, as every one waits for the mutex of the passport.  Excepted are a
\* promotion that failed, a link that went, and a bind that is no grant's.
THEOREM GrantsMatchPrimary == Spec => []GrantMatchesPrimary
<1>1. ProfilesInv => GrantMatchesPrimary
  BY DEF ProfilesInv, GrantInv
<1> QED
  BY <1>1, ProfilesInvariant, PTL

================================================================================
