----------------------- MODULE RequestEffectProofs ------------------------
(***************************************************************************)
(* The effect of a request, for every instance of RequestPlatform: that it *)
(* has one at most, that it has one only while it is approved (the         *)
(* contract), that a request closed before leaves nothing behind, and that *)
(* the balance counts the leave that is approved.                          *)
(*                                                                         *)
(* One effect.  An integration writes into the other module first and says *)
(* so in the request afterwards, so the invariant ties the two tables to   *)
(* the one call at work: until its write there is no effect, from then on  *)
(* the only effect is the row in the call's hands, and when no call is at  *)
(* work the effect is the one the request names.  A step disturbs one      *)
(* request only (OnceLocal); there, a call goes to work (OnceEnter), goes  *)
(* on (OnceWork, OnceNothing), or is not at work at all (OnceFrame).       *)
(***************************************************************************)
EXTENDS RequestProofs, FiniteSetTheorems

Before  == {"resetting", "claiming", "looking", "finding", "writing", "unlinking"}
After   == {"consuming", "charging", "marking"}
Undoing == {"freeing", "releasing", "erasing"}

\* A call is on a request that exists, and so are those it goes on to.
Begun ==
    \A c \in Everyone : call[c] # Null =>
        /\ inst[call[c].on].status # "none"
        /\ \A q \in call[c].todo : inst[q].status # "none"

\* One call at a time is at work for the request.
Alone(r) == \A c, d \in AtWork(r) : c = d

\* Whoever reads the request sees its effect, unless a call is about to name it.
Known(r) ==
    \/ Effects(r) = {}
    \/ Integrated(r) /\ Effects(r) \subseteq {inst[r].entity}
    \/ \E c \in AtWork(r) : call[c].at \in After

\* Whoever wrote the effect has its id in hand.
InHand(r) ==
    \A c \in AtWork(r) :
        /\ call[c].at \in Before => Effects(r) = {}
        /\ call[c].at \in After \cup Undoing => Effects(r) \subseteq {call[c].id}

\* What makes a second effect impossible.
Once(r) == Alone(r) /\ Known(r) /\ InHand(r)

\* The invariant, for requests no two callers or crash disturbed.
OnceUnlessHit(r) == hits[r] \subseteq {"stale"} => Once(r)

OnceInv == TypeOK /\ Begun /\ \A r \in Requests : OnceUnlessHit(r)

\* The own call of a step is gone, or on a request it had to do.
Keeps(c) ==
    call'[c] = Null
    \/ /\ call[c] # Null
       /\ call'[c].on \in {call[c].on} \cup call[c].todo
       /\ call'[c].todo \subseteq call[c].todo

\* The call ends, or leaves the part that writes to the other modules.
Rests(c) == call'[c] = Null \/ call'[c].at \notin Domain

\* The step leaves the request, and its effects, to the call at work for it.
Undisturbed(r) ==
    /\ inst'[r].integration = inst[r].integration
    /\ inst'[r].entity = inst[r].entity
    /\ hits[r] \subseteq hits'[r]
    /\ Effects(r)' \subseteq Effects(r)

\* Going on or ending moves only the own call, to a request it had to do.
LEMMA OnceMoves ==
    ASSUME CallOK, NEW c \in Everyone, call[c] # Null
    PROVE  /\ Finish(c) => Only(c) /\ Keeps(c) /\ Rests(c)
           /\ \A place \in Places : Goto(c, place) =>
                 /\ Only(c)
                 /\ Keeps(c)
                 /\ call'[c] # Null
                 /\ call'[c].at = place
                 /\ call'[c].on = call[c].on
                 /\ call'[c].id = call[c].id
           /\ \A place \in Places :
                 GotoFresh(c, place) => Only(c) /\ Keeps(c) /\ call'[c].at = place
<1>1. call[c] \in Call
  BY DEF CallOK
<1>2. Finish(c) => Only(c) /\ Keeps(c) /\ Rests(c)
  BY <1>1 DEF Finish, CallOK, Call, Only, Keeps, Rests, Fresh, Domain
<1>3. \A place \in Places : Goto(c, place) =>
          /\ Only(c)
          /\ Keeps(c)
          /\ call'[c] # Null
          /\ call'[c].at = place
          /\ call'[c].on = call[c].on
          /\ call'[c].id = call[c].id
  <2> SUFFICES ASSUME NEW place \in Places, Goto(c, place)
               PROVE  /\ Only(c)
                      /\ Keeps(c)
                      /\ call'[c] # Null
                      /\ call'[c].at = place
                      /\ call'[c].on = call[c].on
                      /\ call'[c].id = call[c].id
    OBVIOUS
  <2>1. [call[c] EXCEPT !.at = place] \in Call
    BY <1>1 DEF Call
  <2>2. call'[c] = [call[c] EXCEPT !.at = place] /\ Only(c)
    BY DEF Goto, CallOK, Only
  <2> QED BY <1>1, <2>1, <2>2, CallAssumption DEF Call, Keeps
<1>4. \A place \in Places : GotoFresh(c, place) => Only(c) /\ Keeps(c) /\ call'[c].at = place
  BY DEF GotoFresh, Fresh, CallOK, Only, Keeps
<1> QED BY <1>2, <1>3, <1>4

\* Beginning one moves only the own call.
LEMMA OnceBeginMoves ==
    ASSUME TypeOK, NEW c \in Everyone, NEW r \in Requests, NEW place \in Places,
           NEW s \in Steps \cup {Null}, Occupy(c, r, place, s)
    PROVE  /\ Only(c)
           /\ call[c] = Null
           /\ call'[c] # Null
           /\ call'[c].at = place
           /\ call'[c].on = r
           /\ call'[c].todo = {}
<1>1. inst[r].status \in Status
  BY DEF TypeOK, Instance
<1>2. Fresh(r, place, {}) \in Call
  BY FreshType
<1>3. [Fresh(r, place, {}) EXCEPT !.seen = inst[r].status, !.step = s] \in Call
  BY <1>1, <1>2 DEF Call
<1>4. call'[c] = [Fresh(r, place, {}) EXCEPT !.seen = inst[r].status, !.step = s]
      /\ call[c] = Null /\ Only(c)
  BY DEF Occupy, TypeOK, Only
<1> QED BY <1>3, <1>4, CallAssumption DEF Fresh

\* Requests do not cease to exist.
LEMMA BegunFrame ==
    ASSUME Begun, TypeOK, NEW c \in Everyone, Only(c),
           \A r \in Requests : inst[r].status # "none" => inst'[r].status # "none",
           \/ Keeps(c)
           \/ call'[c].on \in Requests /\ inst'[call'[c].on].status # "none"
              /\ \A q \in call'[c].todo : q \in Requests /\ inst'[q].status # "none"
    PROVE  Begun'
<1> SUFFICES ASSUME NEW d \in Everyone, call'[d] # Null
             PROVE  /\ inst'[call'[d].on].status # "none"
                    /\ \A q \in call'[d].todo : inst'[q].status # "none"
  BY DEF Begun
<1>1. \A e \in Everyone :
         call[e] # Null => call[e].on \in Requests /\ call[e].todo \subseteq Requests
  BY DEF TypeOK, Call
<1>2. CASE d = c
  <2>1. CASE Keeps(c)
    BY <1>1, <1>2, <2>1 DEF Keeps, Begun
  <2>2. CASE ~Keeps(c)
    BY <1>2, <2>2
  <2> QED BY <2>1, <2>2
<1>3. CASE d # c
  BY <1>1, <1>3 DEF Only, Begun
<1> QED BY <1>2, <1>3

\* A request nobody of this step is at work for.
LEMMA OnceFrame ==
    ASSUME NEW r \in Requests, NEW c \in Everyone, OnceUnlessHit(r), Undisturbed(r), Only(c),
           c \notin AtWork(r), c \notin AtWork(r)'
    PROVE  OnceUnlessHit(r)'
<1> SUFFICES ASSUME hits'[r] \subseteq {"stale"} PROVE Once(r)'
  BY DEF OnceUnlessHit
<1>1. Once(r)
  BY DEF OnceUnlessHit, Undisturbed
<1>2. AtWork(r)' = AtWork(r) /\ \A d \in AtWork(r) : call'[d] = call[d]
  BY DEF AtWork, Only
<1>3. Alone(r)'
  BY <1>1, <1>2 DEF Once, Alone
<1>4. Known(r)'
  BY <1>1, <1>2 DEF Once, Known, Undisturbed, Integrated
<1>5. InHand(r)'
  BY <1>1, <1>2 DEF Once, InHand, Undisturbed
<1> QED BY <1>3, <1>4, <1>5 DEF Once

\* A call that goes to work for a request finds its effect named, or none.
LEMMA OnceEnter ==
    ASSUME NEW r \in Requests, NEW c \in Everyone, OnceUnlessHit(r), Undisturbed(r), Only(c),
           c \notin AtWork(r),
           AtWork(r) \ {c} # {} => "overlap" \in hits'[r],
           call'[c].at \notin After \cup Undoing,
           call'[c].at \in Before => ~Integrated(r)
    PROVE  OnceUnlessHit(r)'
<1> SUFFICES ASSUME hits'[r] \subseteq {"stale"} PROVE Once(r)'
  BY DEF OnceUnlessHit
<1>1. Once(r)
  BY DEF OnceUnlessHit, Undisturbed
<1>2. AtWork(r) = {}
  OBVIOUS
<1>3. AtWork(r)' \subseteq {c}
  BY <1>2 DEF AtWork, Only
<1>4. Effects(r) = {} \/ (Integrated(r) /\ Effects(r) \subseteq {inst[r].entity})
  BY <1>1, <1>2 DEF Once, Known
<1>5. Alone(r)'
  BY <1>3 DEF Alone
<1>6. Known(r)'
  BY <1>4 DEF Known, Undisturbed, Integrated
<1>7. InHand(r)'
  BY <1>3, <1>4 DEF InHand, Undisturbed
<1> QED BY <1>5, <1>6, <1>7 DEF Once

\* The step of the only call at work for a request.
LEMMA OnceAlone ==
    ASSUME NEW r \in Requests, NEW c \in Everyone, OnceUnlessHit(r), hits[r] \subseteq hits'[r],
           Only(c), c \in AtWork(r),
           hits'[r] \subseteq {"stale"} =>
              /\ Known(r)'
              /\ c \in AtWork(r)' /\ call'[c].at \in Before => Effects(r)' = {}
              /\ c \in AtWork(r)' /\ call'[c].at \in After \cup Undoing
                   => Effects(r)' \subseteq {call'[c].id}
    PROVE  OnceUnlessHit(r)'
<1> SUFFICES ASSUME hits'[r] \subseteq {"stale"} PROVE Once(r)'
  BY DEF OnceUnlessHit
<1>1. Once(r)
  BY DEF OnceUnlessHit
<1>2. AtWork(r)' \subseteq {c}
  BY <1>1 DEF Once, Alone, AtWork, Only
<1>3. Alone(r)'
  BY <1>2 DEF Alone
<1>4. InHand(r)'
  BY <1>2 DEF InHand
<1> QED BY <1>3, <1>4 DEF Once

\* Without an effect, whatever it does is safe.
LEMMA OnceNothing ==
    ASSUME NEW r \in Requests, NEW c \in Everyone, OnceUnlessHit(r), hits[r] \subseteq hits'[r],
           Only(c), c \in AtWork(r),
           hits'[r] \subseteq {"stale"} => Effects(r)' = {}
    PROVE  OnceUnlessHit(r)'
<1>1. hits'[r] \subseteq {"stale"} => Known(r)'
  BY DEF Known
<1> QED BY <1>1, OnceAlone

\* It may stay where it knows the effect, and end where the request names it.
LEMMA OnceWork ==
    ASSUME NEW r \in Requests, NEW c \in Everyone, OnceUnlessHit(r), Undisturbed(r), Only(c),
           c \in AtWork(r),
           call[c].at \in After => /\ c \in AtWork(r)'
                                   /\ call'[c].at \in After
                                   /\ call'[c].id = call[c].id,
           c \in AtWork(r)' => /\ call'[c].at \in Before => call[c].at \in Before
                               /\ call'[c].at \in After => call[c].at \in After
                               /\ call'[c].at \in Undoing => /\ call[c].at \in Undoing
                                                             /\ call'[c].id = call[c].id
    PROVE  OnceUnlessHit(r)'
<1>1. ASSUME hits'[r] \subseteq {"stale"}
      PROVE  /\ Known(r)'
             /\ c \in AtWork(r)' /\ call'[c].at \in Before => Effects(r)' = {}
             /\ c \in AtWork(r)' /\ call'[c].at \in After \cup Undoing
                  => Effects(r)' \subseteq {call'[c].id}
  <2>1. Once(r)
    BY <1>1 DEF OnceUnlessHit, Undisturbed
  <2>2. \A d \in AtWork(r) : d = c
    BY <2>1 DEF Once, Alone
  <2>3. Known(r)'
    <3>1. CASE Effects(r) = {}
      BY <3>1 DEF Known, Undisturbed
    <3>2. CASE Integrated(r) /\ Effects(r) \subseteq {inst[r].entity}
      BY <3>2 DEF Known, Undisturbed, Integrated
    <3>3. CASE \E d \in AtWork(r) : call[d].at \in After
      BY <2>2, <3>3 DEF Known
    <3> QED BY <2>1, <3>1, <3>2, <3>3 DEF Once, Known
  <2>4. /\ call[c].at \in Before => Effects(r) = {}
        /\ call[c].at \in After \cup Undoing => Effects(r) \subseteq {call[c].id}
    BY <2>1 DEF Once, InHand
  <2>5. c \in AtWork(r)' /\ call'[c].at \in Before => Effects(r)' = {}
    BY <2>4 DEF Undisturbed
  <2>6. c \in AtWork(r)' /\ call'[c].at \in After => Effects(r)' \subseteq {call'[c].id}
    BY <2>4 DEF Undisturbed
  <2>7. c \in AtWork(r)' /\ call'[c].at \in Undoing => Effects(r)' \subseteq {call'[c].id}
    BY <2>4 DEF Undisturbed
  <2> QED BY <2>3, <2>5, <2>6, <2>7
<1> QED BY <1>1, OnceAlone DEF Undisturbed

\* Where no row becomes approved there is no new effect.
LEMMA EffectsShrink ==
    ASSUME NEW r \in Requests,
           \A id \in Ids : row'[id] = row[id] \/ row'[id].status # "approved" \/ row'[id].of # r
    PROVE  Effects(r)' \subseteq Effects(r)
BY DEF Effects

\* A step of a call on one request does not disturb the others.
LEMMA OnceLocal ==
    ASSUME OnceInv, TypeOK', NEW c \in Everyone, NEW r \in Requests,
           call[c] = Null \/ call[c].on = r,
           Only(c),
           Rests(c) \/ call'[c].on = r,
           \A q \in Requests \ {r} : inst'[q] = inst[q] /\ hits'[q] = hits[q],
           \A id \in Ids : row'[id] = row[id] \/ row'[id].status # "approved" \/ row'[id].of = r,
           Begun',
           OnceUnlessHit(r)'
    PROVE  OnceInv'
<1> SUFFICES ASSUME NEW q \in Requests PROVE OnceUnlessHit(q)'
  BY DEF OnceInv
<1>1. CASE q = r
  BY <1>1
<1>2. CASE q # r
  <2>1. c \notin AtWork(q) /\ c \notin AtWork(q)'
    BY <1>2 DEF AtWork, Rests
  <2>2. Undisturbed(q)
    <3>1. Effects(q)' \subseteq Effects(q)
      BY <1>2, EffectsShrink
    <3> QED BY <1>2, <3>1 DEF Undisturbed
  <2> QED BY <2>1, <2>2, OnceFrame DEF OnceInv
<1> QED BY <1>1, <1>2

\* A step that moves no call keeps the invariant.
LEMMA OnceUnchanged ==
    ASSUME OnceInv, TypeOK', UNCHANGED <<row, call, hits>>,
           \A r \in Requests : /\ inst'[r].integration = inst[r].integration
                               /\ inst'[r].entity = inst[r].entity
                               /\ inst[r].status # "none" => inst'[r].status # "none"
    PROVE  OnceInv'
<1>1. Begun'
  BY DEF OnceInv, TypeOK, Call, Begun
<1>2. ASSUME NEW r \in Requests PROVE OnceUnlessHit(r)'
  <2>1. (Effects(r)' = Effects(r)) /\ (AtWork(r)' = AtWork(r)) /\ (Integrated(r)' <=> Integrated(r))
    BY DEF Effects, AtWork, Integrated
  <2> QED BY <2>1 DEF OnceInv, OnceUnlessHit, Once, Alone, Known, InHand
<1> QED BY <1>1, <1>2 DEF OnceInv

\* A step that begins a call keeps the invariant.
LEMMA OnceBegins ==
    ASSUME OnceInv, TypeOK', NEW c \in Everyone, NEW r \in Requests, Only(c), call[c] = Null,
           Rests(c), call'[c].on = r, call'[c].todo = {},
           UNCHANGED <<inst, row, hits>>, inst[r].status # "none"
    PROVE  OnceInv'
<1>1. Begun'
  BY BegunFrame DEF OnceInv
<1>2. Undisturbed(r) /\ c \notin AtWork(r) /\ c \notin AtWork(r)'
  BY EffectsShrink DEF Undisturbed, AtWork, Rests
<1>3. OnceUnlessHit(r)'
  BY <1>2, OnceFrame DEF OnceInv
<1> QED BY <1>1, <1>3, OnceLocal

\* A call that stops anywhere keeps it too: in front of the writes it has begun
\* the stop is remembered.
LEMMA OnceStops ==
    ASSUME OnceInv, TypeOK', NEW c \in Everyone, NEW r \in Requests, call[c] # Null,
           call[c].on = r, Only(c), Keeps(c), Rests(c), UNCHANGED <<inst, row>>,
           NEW what, Hit(r, what), call[c].at \in After => "crash" \in what \/ "partial" \in what
    PROVE  OnceInv'
<1>1. hits[r] \subseteq hits'[r] /\ \A q \in Requests \ {r} : hits'[q] = hits[q]
  BY DEF Hit, OnceInv, TypeOK
<1>2. Undisturbed(r) /\ c \notin AtWork(r)'
  BY <1>1, EffectsShrink DEF Undisturbed, AtWork, Rests
<1>3. OnceUnlessHit(r)'
  <2>1. CASE c \notin AtWork(r)
    BY <1>2, <2>1, OnceFrame DEF OnceInv
  <2>2. CASE c \in AtWork(r) /\ call[c].at \in After
    <3>1. "crash" \in hits'[r] \/ "partial" \in hits'[r]
      BY <2>2 DEF Hit, OnceInv, TypeOK
    <3> QED BY <3>1 DEF OnceUnlessHit
  <2>3. CASE c \in AtWork(r) /\ call[c].at \notin After
    BY <1>2, <2>3, OnceWork DEF OnceInv
  <2> QED BY <2>1, <2>2, <2>3
<1>4. Begun'
  BY BegunFrame DEF OnceInv
<1> QED BY <1>1, <1>3, <1>4, OnceLocal

\* Nobody is at work at first.
LEMMA OnceInit == Init => OnceInv
<1> SUFFICES ASSUME Init PROVE OnceInv
  OBVIOUS
<1>1. TypeOK
  BY TypeInit
<1>2. Begun
  BY DEF Init, Begun
<1>3. ASSUME NEW r \in Requests PROVE Once(r)
  <2>1. Effects(r) = {} /\ AtWork(r) = {}
    BY DEF Init, Effects, AtWork
  <2> QED BY <2>1 DEF Once, Alone, Known, InHand
<1> QED BY <1>1, <1>2, <1>3 DEF OnceInv, OnceUnlessHit

\* Every step keeps the invariant, one action at a time.
LEMMA OnceStep == OnceInv /\ [Next]_vars => OnceInv'
<1> SUFFICES ASSUME OnceInv, [Next]_vars
             PROVE  OnceInv'
  OBVIOUS
<1> TypeOK /\ TypeOK' /\ CallOK /\ Begun
  BY TypeStep DEF OnceInv, TypeOK, CallOK
<1>1. ASSUME NEW r \in Requests, NEW kind \in Kinds, CreateDraft(r, kind)
      PROVE  OnceInv'
  BY <1>1, OnceUnchanged DEF CreateDraft, TypeOK, Instance
<1>2. ASSUME NEW c \in Callers, NEW r \in Requests, NEW kind \in Kinds, NEW n \in Submissions,
             CreateAndSubmit(c, r, kind, n)
      PROVE  OnceInv'
  <2>1. c \in Everyone
    BY Constants
  <2>2. /\ \A q \in Requests : /\ inst'[q].integration = inst[q].integration
                               /\ inst'[q].entity = inst[q].entity
                               /\ inst[q].status # "none" => inst'[q].status # "none"
                               /\ q # r => inst'[q] = inst[q]
        /\ inst[r].status = "none"
        /\ inst'[r].status = "in_review"
    BY <1>2 DEF CreateAndSubmit, TypeOK, Instance
  <2>3. CASE kind # "leave"
    BY <1>2, <2>2, <2>3, OnceUnchanged DEF CreateAndSubmit
  <2>4. CASE kind = "leave"
    <3>1. /\ Only(c) /\ call[c] = Null /\ call'[c] # Null /\ call'[c].at = "staging"
          /\ call'[c].on = r /\ call'[c].todo = {}
      BY <1>2, <2>1, <2>4, OnceBeginMoves DEF CreateAndSubmit, Places, Domain
    <3>2. Begun'
      BY <2>1, <2>2, <3>1, BegunFrame
    <3>3. AtWork(r) = {}
      BY <2>2 DEF Begun, AtWork
    <3>4. Undisturbed(r)
      BY <1>2, <2>2, EffectsShrink DEF CreateAndSubmit, Undisturbed
    <3>5. OnceUnlessHit(r)'
      BY <2>1, <3>1, <3>3, <3>4, OnceEnter DEF OnceInv, Before, After, Undoing
    <3> QED BY <1>2, <2>1, <2>2, <3>1, <3>2, <3>5, OnceLocal DEF CreateAndSubmit
  <2> QED BY <2>3, <2>4
<1>3. ASSUME NEW c \in Callers, NEW r \in Requests, BeginSubmit(c, r)
      PROVE  OnceInv'
  <2>1. c \in Everyone
    BY Constants
  <2>2. "submitting" \in Places /\ "submitting" \notin Domain
    BY DEF Places, Domain
  <2>3. Only(c) /\ call[c] = Null /\ Rests(c) /\ call'[c].on = r /\ call'[c].todo = {}
    BY <1>3, <2>1, <2>2, OnceBeginMoves DEF BeginSubmit, Begin, Rests
  <2> QED BY <1>3, <2>1, <2>3, OnceBegins DEF BeginSubmit, tables
<1>4. ASSUME NEW c \in Callers, NEW r \in Requests, BeginDiscard(c, r)
      PROVE  OnceInv'
  <2>1. c \in Everyone
    BY Constants
  <2>2. "discarding" \in Places /\ "discarding" \notin Domain
    BY DEF Places, Domain
  <2>3. Only(c) /\ call[c] = Null /\ Rests(c) /\ call'[c].on = r /\ call'[c].todo = {}
    BY <1>4, <2>1, <2>2, OnceBeginMoves DEF BeginDiscard, Begin, Rests
  <2> QED BY <1>4, <2>1, <2>3, OnceBegins DEF BeginDiscard, tables
<1>5. ASSUME NEW c \in Callers, NEW r \in Requests, NEW place \in {"approving", "rejecting"},
             BeginDecide(c, r, place)
      PROVE  OnceInv'
  <2>1. c \in Everyone
    BY Constants
  <2>2. place \in Places /\ place \notin Domain
    BY DEF Places, Domain
  <2>3. PICK s \in Lowest(r) : Begin(c, r, place, s)
    BY <1>5 DEF BeginDecide
  <2>4. s \in Steps \cup {Null}
    BY DEF Lowest, Pending
  <2>5. Only(c) /\ call[c] = Null /\ Rests(c) /\ call'[c].on = r /\ call'[c].todo = {}
    BY <2>1, <2>2, <2>3, <2>4, OnceBeginMoves DEF Begin, Rests
  <2> QED BY <1>5, <2>1, <2>5, OnceBegins DEF BeginDecide, tables
<1>6. ASSUME NEW c \in Callers, NEW r \in Requests, BeginCancel(c, r)
      PROVE  OnceInv'
  <2>1. c \in Everyone
    BY Constants
  <2>2. /\ Only(c) /\ call[c] = Null /\ call'[c] # Null /\ call'[c].at = "undoing"
        /\ call'[c].on = r /\ call'[c].todo = {}
    BY <1>6, <2>1, OnceBeginMoves DEF BeginCancel, Begin, Places, Domain
  <2>3. UNCHANGED <<inst, row>> /\ inst[r].status # "none"
    BY <1>6 DEF BeginCancel, tables
  <2>4. Begun'
    BY <2>1, <2>2, <2>3, BegunFrame
  <2>5. /\ hits[r] \subseteq hits'[r]
        /\ AtWork(r) # {} => "overlap" \in hits'[r]
        /\ \A q \in Requests \ {r} : hits'[q] = hits[q]
    BY <1>6 DEF BeginCancel, Hit, TypeOK
  <2>6. Undisturbed(r) /\ c \notin AtWork(r)
    BY <2>2, <2>3, <2>5, EffectsShrink DEF Undisturbed, AtWork
  <2>7. OnceUnlessHit(r)'
    BY <1>6, <2>1, <2>2, <2>5, <2>6, OnceEnter DEF BeginCancel, OnceInv, Before, After, Undoing
  <2> QED BY <2>1, <2>2, <2>3, <2>4, <2>5, <2>7, OnceLocal
<1>7. ASSUME NEW c \in Callers, NEW r \in Requests, BeginRetry(c, r)
      PROVE  OnceInv'
  <2>1. c \in Everyone
    BY Constants
  <2>2. /\ Only(c) /\ call[c] = Null /\ call'[c] # Null /\ call'[c].at = "resetting"
        /\ call'[c].on = r /\ call'[c].todo = {}
    BY <1>7, <2>1, OnceBeginMoves DEF BeginRetry, Begin, Places, Domain
  <2>3. UNCHANGED <<inst, row>> /\ inst[r].status # "none"
    BY <1>7 DEF BeginRetry, tables
  <2>4. Begun'
    BY <2>1, <2>2, <2>3, BegunFrame
  <2>5. /\ hits[r] \subseteq hits'[r]
        /\ AtWork(r) # {} => "overlap" \in hits'[r]
        /\ \A q \in Requests \ {r} : hits'[q] = hits[q]
    BY <1>7 DEF BeginRetry, Hit, TypeOK
  <2>6. Undisturbed(r) /\ c \notin AtWork(r)
    BY <2>2, <2>3, <2>5, EffectsShrink DEF Undisturbed, AtWork
  <2>7. OnceUnlessHit(r)'
    BY <1>7, <2>1, <2>2, <2>5, <2>6, OnceEnter DEF BeginRetry, OnceInv, Before, After, Undoing
  <2> QED BY <2>1, <2>2, <2>3, <2>4, <2>5, <2>7, OnceLocal
<1>8. ASSUME NEW c \in Everyone, NEW n \in Submissions, Submit(c, n) PROVE OnceInv'
  <2>1. call[c] # Null /\ call[c] \in Call
    BY <1>8 DEF Submit, At, CallOK
  <2>2. PICK r \in Requests : r = call[c].on
    BY <2>1 DEF Call
  <2>3. /\ UNCHANGED row
        /\ inst' = [inst EXCEPT ![r].status = "in_review"]
        /\ hits[r] \subseteq hits'[r]
        /\ \A q \in Requests \ {r} : hits'[q] = hits[q]
        /\ c \notin AtWork(r)
    BY <1>8, <2>2 DEF Submit, At, Hit, TypeOK, AtWork, Domain
  <2>4. \A q \in Requests : /\ inst[q].status # "none" => inst'[q].status # "none"
                            /\ q # r => inst'[q] = inst[q]
    BY <2>3 DEF TypeOK, Instance
  <2>5. Undisturbed(r)
    BY <2>3, EffectsShrink DEF Undisturbed, TypeOK, Instance
  <2>6. CASE Finish(c)
    <3>1. Only(c) /\ Keeps(c) /\ Rests(c)
      BY <2>1, <2>6, OnceMoves
    <3>2. OnceUnlessHit(r)'
      BY <2>3, <2>5, <3>1, OnceFrame DEF OnceInv, Rests, AtWork
    <3> QED BY <2>1, <2>2, <2>3, <2>4, <3>1, <3>2, BegunFrame, OnceLocal
  <2>7. CASE ~Finish(c)
    <3>1. Goto(c, "staging") /\ hits' = [hits EXCEPT ![r] = @ \cup (Stale(c) \cup Overlap(c))]
      BY <1>8, <2>2, <2>7 DEF Submit, Hit
    <3>2. Only(c) /\ Keeps(c) /\ call'[c].at = "staging" /\ call'[c].on = r
      BY <2>1, <2>2, <3>1, OnceMoves DEF Places, Domain
    <3>3. AtWork(r) \ {c} # {} => "overlap" \in hits'[r]
      BY <2>2, <3>1 DEF Overlap, TypeOK
    <3>4. OnceUnlessHit(r)'
      BY <2>3, <2>5, <3>2, <3>3, OnceEnter DEF OnceInv, Before, After, Undoing
    <3> QED BY <2>1, <2>2, <2>3, <2>4, <3>2, <3>4, BegunFrame, OnceLocal
  <2> QED BY <2>6, <2>7
<1>9. ASSUME NEW c \in Everyone, Discard(c) PROVE OnceInv'
  <2>1. call[c] # Null /\ call[c] \in Call
    BY <1>9 DEF Discard, At, CallOK
  <2>2. PICK r \in Requests : r = call[c].on
    BY <2>1 DEF Call
  <2>3. Only(c) /\ Keeps(c) /\ Rests(c)
    BY <1>9, <2>1, OnceMoves DEF Discard
  <2>4. \A q \in Requests : /\ inst'[q].integration = inst[q].integration
                            /\ inst'[q].entity = inst[q].entity
                            /\ inst[q].status # "none" => inst'[q].status # "none"
                            /\ q # r => inst'[q] = inst[q]
    BY <1>9, <2>2 DEF Discard, TypeOK, Instance
  <2>5. \A id \in Ids : row'[id] = row[id]
    BY <1>9 DEF Discard
  <2>6. hits[r] \subseteq hits'[r] /\ \A q \in Requests \ {r} : hits'[q] = hits[q]
    BY <1>9, <2>2 DEF Discard, Hit, TypeOK
  <2>7. c \notin AtWork(r) /\ c \notin AtWork(r)'
    BY <1>9, <2>3 DEF Discard, At, AtWork, Rests, Domain
  <2>8. Undisturbed(r)
    BY <2>4, <2>5, <2>6, EffectsShrink DEF Undisturbed
  <2>9. OnceUnlessHit(r)'
    BY <2>3, <2>7, <2>8, OnceFrame DEF OnceInv
  <2> QED BY <2>1, <2>2, <2>3, <2>4, <2>5, <2>6, <2>9, BegunFrame, OnceLocal
<1>10. ASSUME NEW c \in Everyone, Approve(c) PROVE OnceInv'
  <2>1. call[c] # Null /\ call[c] \in Call
    BY <1>10 DEF Approve, At, CallOK
  <2>2. PICK r \in Requests : r = call[c].on
    BY <2>1 DEF Call
  <2>3. Only(c) /\ Keeps(c) /\ Rests(c)
    BY <1>10, <2>1, OnceMoves DEF Approve, Rests, Places, Domain
  <2>4. \A q \in Requests : /\ inst'[q].integration = inst[q].integration
                            /\ inst'[q].entity = inst[q].entity
                            /\ inst[q].status # "none" => inst'[q].status # "none"
                            /\ q # r => inst'[q] = inst[q]
    BY <1>10, <2>2 DEF Approve, TypeOK, Instance
  <2>5. \A id \in Ids : row'[id] = row[id]
    BY <1>10 DEF Approve
  <2>6. hits[r] \subseteq hits'[r] /\ \A q \in Requests \ {r} : hits'[q] = hits[q]
    BY <1>10, <2>2 DEF Approve, Hit, TypeOK
  <2>7. c \notin AtWork(r) /\ c \notin AtWork(r)'
    BY <1>10, <2>3 DEF Approve, At, AtWork, Rests, Domain
  <2>8. Undisturbed(r)
    BY <2>4, <2>5, <2>6, EffectsShrink DEF Undisturbed
  <2>9. OnceUnlessHit(r)'
    BY <2>3, <2>7, <2>8, OnceFrame DEF OnceInv
  <2> QED BY <2>1, <2>2, <2>3, <2>4, <2>5, <2>6, <2>9, BegunFrame, OnceLocal
<1>11. ASSUME NEW c \in Everyone, Reject(c) PROVE OnceInv'
  <2>1. call[c] # Null /\ call[c] \in Call
    BY <1>11 DEF Reject, At, CallOK
  <2>2. PICK r \in Requests : r = call[c].on
    BY <2>1 DEF Call
  <2>3. Only(c) /\ Keeps(c) /\ Rests(c)
    BY <1>11, <2>1, OnceMoves DEF Reject, Rests, Places, Domain
  <2>4. \A q \in Requests : /\ inst'[q].integration = inst[q].integration
                            /\ inst'[q].entity = inst[q].entity
                            /\ inst[q].status # "none" => inst'[q].status # "none"
                            /\ q # r => inst'[q] = inst[q]
    BY <1>11, <2>2 DEF Reject, TypeOK, Instance
  <2>5. \A id \in Ids : row'[id] = row[id]
    BY <1>11 DEF Reject
  <2>6. hits[r] \subseteq hits'[r] /\ \A q \in Requests \ {r} : hits'[q] = hits[q]
    BY <1>11, <2>2 DEF Reject, Hit, TypeOK
  <2>7. c \notin AtWork(r) /\ c \notin AtWork(r)'
    BY <1>11, <2>3 DEF Reject, At, AtWork, Rests, Domain
  <2>8. Undisturbed(r)
    BY <2>4, <2>5, <2>6, EffectsShrink DEF Undisturbed
  <2>9. OnceUnlessHit(r)'
    BY <2>3, <2>7, <2>8, OnceFrame DEF OnceInv
  <2> QED BY <2>1, <2>2, <2>3, <2>4, <2>5, <2>6, <2>9, BegunFrame, OnceLocal
<1>12. ASSUME NEW c \in Everyone, Unstage(c) PROVE OnceInv'
  <2>1. call[c] # Null /\ call[c] \in Call
    BY <1>12 DEF Unstage, At, CallOK
  <2>2. PICK r \in Requests : r = call[c].on
    BY <2>1 DEF Call
  <2>3. Only(c) /\ Keeps(c) /\ Rests(c)
    BY <1>12, <2>1, OnceMoves DEF Unstage
  <2>4. \A q \in Requests : inst'[q] = inst[q]
    BY <1>12 DEF Unstage
  <2>5. \A id \in Ids : row'[id] = row[id] \/ row'[id].status # "approved"
    BY <1>12, <2>2, TypeParts, StagedRejected DEF Unstage
  <2>6. hits[r] \subseteq hits'[r] /\ \A q \in Requests \ {r} : hits'[q] = hits[q]
    BY <1>12, <2>2 DEF Unstage, Hit, TypeOK
  <2>7. c \notin AtWork(r) /\ c \notin AtWork(r)'
    BY <1>12, <2>3 DEF Unstage, At, AtWork, Rests, Domain
  <2>8. Undisturbed(r)
    BY <2>4, <2>5, <2>6, EffectsShrink DEF Undisturbed
  <2>9. OnceUnlessHit(r)'
    BY <2>3, <2>7, <2>8, OnceFrame DEF OnceInv
  <2> QED BY <2>1, <2>2, <2>3, <2>4, <2>5, <2>6, <2>9, BegunFrame, OnceLocal
<1>13. ASSUME NEW c \in Everyone, Check(c) PROVE OnceInv'
  <2>1. call[c] # Null /\ call[c] \in Call
    BY <1>13 DEF Check, At, CallOK
  <2>2. PICK r \in Requests : r = call[c].on
    BY <2>1 DEF Call
  <2>3. UNCHANGED <<inst, row>> /\ c \notin AtWork(r)
    BY <1>13 DEF Check, tables, At, AtWork, Domain
  <2>4. hits[r] \subseteq hits'[r] /\ \A q \in Requests \ {r} : hits'[q] = hits[q]
    BY <1>13, <2>2 DEF Check, Hit, TypeOK
  <2>5. Undisturbed(r)
    BY <2>3, <2>4, EffectsShrink DEF Undisturbed
  <2>6. CASE Finish(c)
    <3>1. Only(c) /\ Keeps(c) /\ Rests(c)
      BY <2>1, <2>6, OnceMoves
    <3>2. OnceUnlessHit(r)'
      BY <2>3, <2>5, <3>1, OnceFrame DEF OnceInv, Rests, AtWork
    <3> QED BY <2>1, <2>2, <2>3, <2>4, <3>1, <3>2, BegunFrame, OnceLocal
  <2>7. CASE ~Finish(c)
    <3>1. Goto(c, "claiming") /\ ~Integrated(r) /\ hits' = [hits EXCEPT ![r] = @ \cup Overlap(c)]
      BY <1>13, <2>2, <2>7 DEF Check, Hit
    <3>2. Only(c) /\ Keeps(c) /\ call'[c].at = "claiming" /\ call'[c].on = r
      BY <2>1, <2>2, <3>1, OnceMoves DEF Places, Domain
    <3>3. AtWork(r) \ {c} # {} => "overlap" \in hits'[r]
      BY <2>2, <3>1 DEF Overlap, TypeOK
    <3>4. OnceUnlessHit(r)'
      BY <2>3, <2>5, <3>1, <3>2, <3>3, OnceEnter DEF OnceInv, After, Undoing
    <3> QED BY <2>1, <2>2, <2>3, <2>4, <3>2, <3>4, BegunFrame, OnceLocal
  <2> QED BY <2>6, <2>7
<1>14. ASSUME NEW c \in Everyone, CheckConflict(c) PROVE OnceInv'
  <2>1. call[c] # Null /\ call[c] \in Call
    BY <1>14 DEF CheckConflict, At, CallOK
  <2>2. PICK r \in Requests : r = call[c].on
    BY <2>1 DEF Call
  <2>3. c \in AtWork(r)
    BY <1>14, <2>1, <2>2 DEF CheckConflict, At, AtWork, Domain
  <2>4. Only(c) /\ Keeps(c) /\ (Rests(c) \/ (call'[c].at = "creating" /\ call'[c].on = r))
    <3>1. CASE Finish(c)
      BY <2>1, <3>1, OnceMoves
    <3>2. CASE Goto(c, "creating")
      BY <2>1, <2>2, <3>2, OnceMoves DEF Places, Domain
    <3> QED BY <1>14, <3>1, <3>2 DEF CheckConflict
  <2>5. \A q \in Requests : inst'[q] = inst[q]
    BY <1>14 DEF CheckConflict, tables
  <2>6. \A id \in Ids : row'[id] = row[id] \/ row'[id].status # "approved" \/ row'[id].of = r
    BY <1>14, <2>2 DEF CheckConflict, tables
  <2>7. hits' = hits
    BY <1>14 DEF CheckConflict
  <2>8. Undisturbed(r)
    <3>1. \A id \in Ids : row'[id] = row[id] \/ row'[id].status # "approved"
      BY <1>14 DEF CheckConflict, tables
    <3> QED BY <1>14, <2>2, <2>7, <3>1, EffectsShrink
         DEF CheckConflict, tables, Undisturbed, TypeOK, Instance
  <2>9. OnceUnlessHit(r)'
    BY <1>14, <2>1, <2>2, <2>3, <2>4, <2>8, OnceWork DEF CheckConflict, At, AtWork, OnceInv,
      Rests, Domain, Before, After, Undoing
  <2> QED BY <2>1, <2>2, <2>4, <2>5, <2>6, <2>7, <2>9, BegunFrame, OnceLocal
<1>15. ASSUME NEW c \in Everyone, StageLeave(c) PROVE OnceInv'
  <2>1. call[c] # Null /\ call[c] \in Call
    BY <1>15 DEF StageLeave, At, CallOK
  <2>2. PICK r \in Requests : r = call[c].on
    BY <2>1 DEF Call
  <2>3. c \in AtWork(r)
    BY <1>15, <2>1, <2>2 DEF StageLeave, At, AtWork, Domain
  <2>4. Only(c) /\ Keeps(c) /\ call'[c].at = "linking" /\ call'[c].on = r
    BY <1>15, <2>1, <2>2 DEF StageLeave, Only, Keeps, Rests, CallOK, Call
  <2>5. \A q \in Requests : inst'[q] = inst[q]
    BY <1>15 DEF StageLeave, tables
  <2>6. \A id \in Ids : row'[id] = row[id] \/ row'[id].status # "approved" \/ row'[id].of = r
    BY <1>15, <2>2 DEF StageLeave, TypeOK
  <2>7. hits' = hits
    BY <1>15 DEF StageLeave
  <2>8. Undisturbed(r)
    <3>1. \A id \in Ids : row'[id] = row[id] \/ row'[id].status # "approved"
      BY <1>15 DEF StageLeave, TypeOK
    <3> QED BY <1>15, <2>2, <2>7, <3>1, EffectsShrink
         DEF StageLeave, tables, Undisturbed, TypeOK, Instance
  <2>9. OnceUnlessHit(r)'
    BY <1>15, <2>1, <2>2, <2>3, <2>4, <2>8, OnceWork DEF StageLeave, At, AtWork, OnceInv, Rests,
      Domain, Before, After, Undoing
  <2> QED BY <2>1, <2>2, <2>4, <2>5, <2>6, <2>7, <2>9, BegunFrame, OnceLocal
<1>16. ASSUME NEW c \in Everyone, LinkStaged(c) PROVE OnceInv'
  <2>1. call[c] # Null /\ call[c] \in Call
    BY <1>16 DEF LinkStaged, At, CallOK
  <2>2. PICK r \in Requests : r = call[c].on
    BY <2>1 DEF Call
  <2>3. c \in AtWork(r)
    BY <1>16, <2>1, <2>2 DEF LinkStaged, At, AtWork, Domain
  <2>4. Only(c) /\ Keeps(c) /\ Rests(c)
    BY <1>16, <2>1, OnceMoves DEF LinkStaged
  <2>5. \A q \in Requests : /\ inst[q].status # "none" => inst'[q].status # "none"
                            /\ q # r => inst'[q] = inst[q]
    BY <1>16, <2>2 DEF LinkStaged, TypeOK, Instance
  <2>6. \A id \in Ids : row'[id] = row[id] \/ row'[id].status # "approved" \/ row'[id].of = r
    BY <1>16, <2>2 DEF LinkStaged
  <2>7. hits' = hits
    BY <1>16 DEF LinkStaged
  <2>8. Undisturbed(r)
    <3>1. \A id \in Ids : row'[id] = row[id] \/ row'[id].status # "approved"
      BY <1>16 DEF LinkStaged
    <3> QED BY <1>16, <2>2, <2>7, <3>1, EffectsShrink
         DEF LinkStaged, tables, Undisturbed, TypeOK, Instance
  <2>9. OnceUnlessHit(r)'
    BY <1>16, <2>1, <2>2, <2>3, <2>4, <2>8, OnceWork DEF LinkStaged, At, AtWork, OnceInv, Rests,
      Domain, Before, After, Undoing
  <2> QED BY <2>1, <2>2, <2>4, <2>5, <2>6, <2>7, <2>9, BegunFrame, OnceLocal
<1>17. ASSUME NEW c \in Everyone, UndoStaged(c) PROVE OnceInv'
  <2>1. call[c] # Null /\ call[c] \in Call
    BY <1>17 DEF UndoStaged, At, CallOK
  <2>2. PICK r \in Requests : r = call[c].on
    BY <2>1 DEF Call
  <2>3. c \in AtWork(r)
    BY <1>17, <2>1, <2>2 DEF UndoStaged, At, AtWork, Domain
  <2>4. /\ Only(c)
        /\ Keeps(c)
        /\ call'[c] # Null
        /\ call'[c].at = "cancelling"
        /\ call'[c].on = r
        /\ call'[c].id = call[c].id
    BY <1>17, <2>1, <2>2, OnceMoves DEF UndoStaged, Places, Domain
  <2>5. \A q \in Requests : inst'[q] = inst[q]
    BY <1>17 DEF UndoStaged, tables
  <2>6. \A id \in Ids : row'[id] = row[id] \/ row'[id].status # "approved" \/ row'[id].of = r
    BY <1>17, <2>2, TypeParts, StagedRejected DEF UndoStaged
  <2>7. hits' = hits
    BY <1>17 DEF UndoStaged
  <2>8. Undisturbed(r)
    <3>1. \A id \in Ids : row'[id] = row[id] \/ row'[id].status # "approved"
      BY <1>17, <2>2, TypeParts, StagedRejected DEF UndoStaged
    <3> QED BY <1>17, <2>2, <2>7, <3>1, EffectsShrink
         DEF UndoStaged, tables, Undisturbed, TypeOK, Instance
  <2>9. OnceUnlessHit(r)'
    BY <1>17, <2>1, <2>2, <2>3, <2>4, <2>8, OnceWork DEF UndoStaged, At, AtWork, OnceInv, Rests,
      Domain, Before, After, Undoing
  <2> QED BY <2>1, <2>2, <2>4, <2>5, <2>6, <2>7, <2>9, BegunFrame, OnceLocal
<1>18. ASSUME NEW c \in Everyone, UndoApproved(c) PROVE OnceInv'
  <2>1. call[c] # Null /\ call[c] \in Call
    BY <1>18 DEF UndoApproved, At, CallOK
  <2>2. PICK r \in Requests : r = call[c].on
    BY <2>1 DEF Call
  <2>3. c \in AtWork(r)
    BY <1>18, <2>1, <2>2 DEF UndoApproved, At, AtWork, Domain
  <2>5. UNCHANGED <<inst, row, hits>>
    BY <1>18 DEF UndoApproved, tables
  <2>6. Undisturbed(r)
    BY <2>5, EffectsShrink DEF Undisturbed
  <2>7. CASE Finish(c)
    <3>1. Only(c) /\ Keeps(c) /\ Rests(c)
      BY <2>1, <2>7, OnceMoves
    <3>2. OnceUnlessHit(r)'
      BY <1>18, <2>1, <2>2, <2>3, <2>6, <3>1, OnceWork
         DEF UndoApproved, At, AtWork, OnceInv, Rests, Domain, Before, After, Undoing
    <3> QED BY <2>1, <2>2, <2>5, <3>1, <3>2, BegunFrame, OnceLocal
  <2>8. CASE ~Finish(c)
    <3> DEFINE id == inst[r].entity
    <3> DEFINE at == IF ~Integrated(r) THEN "cancelling"
                     ELSE IF row[id].status # "approved" THEN "unlinking"
                     ELSE IF inst[r].kind = "leave" THEN "freeing" ELSE "erasing"
    <3>1. call' = [call EXCEPT ![c].seen = "approved", ![c].id = id, ![c].at = at]
      BY <1>18, <2>2, <2>8 DEF UndoApproved
    <3>2. /\ at \in {"cancelling", "unlinking", "freeing", "erasing"}
          /\ at = "unlinking" => Integrated(r) /\ row[id].status # "approved"
          /\ at \in {"freeing", "erasing"} => Integrated(r)
      OBVIOUS
    <3> HIDE DEF at
    <3>3. /\ Only(c) /\ Keeps(c)
          /\ call'[c].at = at /\ call'[c].on = r /\ call'[c].id = inst[r].entity
      BY <2>1, <2>2, <3>1 DEF Only, Keeps, Rests, CallOK, Call
    <3>4. ASSUME hits'[r] \subseteq {"stale"}, Integrated(r)
          PROVE  Effects(r) \subseteq {inst[r].entity}
      <4>1. Once(r)
        BY <2>5, <3>4 DEF OnceInv, OnceUnlessHit
      <4>2. \A d \in AtWork(r) : call[d].at = "undoing"
        BY <1>18, <2>3, <4>1 DEF UndoApproved, At, Once, Alone
      <4> QED BY <3>4, <4>1, <4>2 DEF Once, Known, After
    <3>5. ASSUME hits'[r] \subseteq {"stale"}
          PROVE  /\ Known(r)'
                 /\ call'[c].at \in Before => Effects(r)' = {}
                 /\ call'[c].at \in After \cup Undoing => Effects(r)' \subseteq {call'[c].id}
      <4>1. /\ Effects(r)' = Effects(r)
            /\ (Integrated(r)' <=> Integrated(r))
            /\ inst'[r].entity = inst[r].entity
        BY <2>5 DEF Effects, Integrated
      <4>2. Known(r)'
        <5>1. Effects(r) = {} \/ Integrated(r)
          BY <1>18, <2>3, <2>5, <3>5 DEF UndoApproved, At, OnceInv, OnceUnlessHit, Once, Alone,
            Known, After
        <5> QED BY <3>4, <3>5, <4>1, <5>1 DEF Known
      <4>3. call'[c].at \in Before => Effects(r)' = {}
        BY <3>2, <3>3, <3>4, <3>5, <4>1 DEF Before, Effects
      <4>4. call'[c].at \in After \cup Undoing => Effects(r)' \subseteq {call'[c].id}
        BY <3>2, <3>3, <3>4, <3>5, <4>1 DEF After, Undoing
      <4> QED BY <4>2, <4>3, <4>4
    <3>6. OnceUnlessHit(r)'
      BY <2>3, <2>5, <3>3, <3>5, OnceAlone DEF OnceInv
    <3> QED BY <2>1, <2>2, <2>5, <3>3, <3>6, BegunFrame, OnceLocal
  <2> QED BY <2>7, <2>8
<1>19. ASSUME NEW c \in Everyone, Release(c) PROVE OnceInv'
  <2>1. call[c] # Null /\ call[c] \in Call
    BY <1>19 DEF Release, At, CallOK
  <2>2. PICK r \in Requests : r = call[c].on
    BY <2>1 DEF Call
  <2>3. c \in AtWork(r)
    BY <1>19, <2>1, <2>2 DEF Release, At, AtWork, Domain
  <2>4. /\ Only(c)
        /\ Keeps(c)
        /\ call'[c] # Null
        /\ call'[c].at = "erasing"
        /\ call'[c].on = r
        /\ call'[c].id = call[c].id
    BY <1>19, <2>1, <2>2, OnceMoves DEF Release, Places, Domain
  <2>5. \A q \in Requests : inst'[q] = inst[q]
    BY <1>19 DEF Release, tables
  <2>6. \A id \in Ids : row'[id] = row[id] \/ row'[id].status # "approved" \/ row'[id].of = r
    BY <1>19, <2>2 DEF Release
  <2>7. hits' = hits
    BY <1>19 DEF Release
  <2>8. Undisturbed(r)
    <3>1. \A id \in Ids : row'[id] = row[id] \/ row'[id].status # "approved"
      BY <1>19 DEF Release
    <3> QED BY <1>19, <2>2, <2>7, <3>1, EffectsShrink
         DEF Release, tables, Undisturbed, TypeOK, Instance
  <2>9. OnceUnlessHit(r)'
    BY <1>19, <2>1, <2>2, <2>3, <2>4, <2>8, OnceWork DEF Release, At, AtWork, OnceInv, Rests,
      Domain, Before, After, Undoing
  <2> QED BY <2>1, <2>2, <2>4, <2>5, <2>6, <2>7, <2>9, BegunFrame, OnceLocal
<1>20. ASSUME NEW c \in Everyone, Erase(c) PROVE OnceInv'
  <2>1. call[c] # Null /\ call[c] \in Call
    BY <1>20 DEF Erase, At, CallOK
  <2>2. PICK r \in Requests : r = call[c].on
    BY <2>1 DEF Call
  <2>3. c \in AtWork(r)
    BY <1>20, <2>1, <2>2 DEF Erase, At, AtWork, Domain
  <2>4. /\ Only(c)
        /\ Keeps(c)
        /\ call'[c] # Null
        /\ call'[c].at = "unlinking"
        /\ call'[c].on = r
        /\ call'[c].id = call[c].id
    BY <1>20, <2>1, <2>2, OnceMoves DEF Erase, Places, Domain
  <2>5. \A q \in Requests : inst'[q] = inst[q]
    BY <1>20 DEF Erase, tables
  <2>6. \A id \in Ids : row'[id] = row[id] \/ row'[id].status # "approved" \/ row'[id].of = r
    BY <1>20, <2>2 DEF Erase, TypeOK, Entity
  <2>7. hits' = hits
    BY <1>20 DEF Erase
  <2>8. ASSUME hits'[r] \subseteq {"stale"} PROVE Effects(r)' = {}
    <3>1. Once(r)
      BY <2>7, <2>8 DEF OnceInv, OnceUnlessHit
    <3>2. Effects(r) \subseteq {call[c].id}
      BY <1>20, <2>2, <2>3, <3>1 DEF Erase, At, Once, InHand, Undoing
    <3> QED BY <1>20, <3>2 DEF Erase, Effects, TypeOK, Entity
  <2>9. OnceUnlessHit(r)'
    BY <2>3, <2>4, <2>7, <2>8, OnceNothing DEF OnceInv
  <2> QED BY <2>1, <2>2, <2>4, <2>5, <2>6, <2>7, <2>9, BegunFrame, OnceLocal
<1>21. ASSUME NEW c \in Everyone, RefuseErase(c) PROVE OnceInv'
  <2>1. call[c] # Null /\ call[c] \in Call
    BY <1>21 DEF RefuseErase, At, CallOK
  <2>2. PICK r \in Requests : r = call[c].on
    BY <2>1 DEF Call
  <2>3. c \in AtWork(r)
    BY <1>21, <2>1, <2>2 DEF RefuseErase, At, AtWork, Domain
  <2>4. Only(c) /\ Keeps(c) /\ Rests(c)
    BY <1>21, <2>1, OnceMoves DEF RefuseErase
  <2>5. \A q \in Requests : inst'[q] = inst[q]
    BY <1>21 DEF RefuseErase, tables
  <2>6. \A id \in Ids : row'[id] = row[id] \/ row'[id].status # "approved" \/ row'[id].of = r
    BY <1>21, <2>2 DEF RefuseErase, tables
  <2>7. hits' = hits
    BY <1>21 DEF RefuseErase
  <2>8. Undisturbed(r)
    <3>1. \A id \in Ids : row'[id] = row[id] \/ row'[id].status # "approved"
      BY <1>21 DEF RefuseErase, tables
    <3> QED BY <1>21, <2>2, <2>7, <3>1, EffectsShrink
         DEF RefuseErase, tables, Undisturbed, TypeOK, Instance
  <2>9. OnceUnlessHit(r)'
    BY <1>21, <2>1, <2>2, <2>3, <2>4, <2>8, OnceWork DEF RefuseErase, At, AtWork, OnceInv, Rests,
      Domain, Before, After, Undoing
  <2> QED BY <2>1, <2>2, <2>4, <2>5, <2>6, <2>7, <2>9, BegunFrame, OnceLocal
<1>22. ASSUME NEW c \in Everyone, Unlink(c) PROVE OnceInv'
  <2>1. call[c] # Null /\ call[c] \in Call
    BY <1>22 DEF Unlink, At, CallOK
  <2>2. PICK r \in Requests : r = call[c].on
    BY <2>1 DEF Call
  <2>3. c \in AtWork(r)
    BY <1>22, <2>1, <2>2 DEF Unlink, At, AtWork, Domain
  <2>4. /\ Only(c)
        /\ Keeps(c)
        /\ call'[c] # Null
        /\ call'[c].at = "cancelling"
        /\ call'[c].on = r
        /\ call'[c].id = call[c].id
    BY <1>22, <2>1, <2>2, OnceMoves DEF Unlink, Places, Domain
  <2>5. \A q \in Requests : /\ inst[q].status # "none" => inst'[q].status # "none"
                            /\ q # r => inst'[q] = inst[q]
    BY <1>22, <2>2 DEF Unlink, TypeOK, Instance
  <2>6. \A id \in Ids : row'[id] = row[id] \/ row'[id].status # "approved" \/ row'[id].of = r
    BY <1>22, <2>2 DEF Unlink
  <2>7. hits' = hits
    BY <1>22 DEF Unlink
  <2>8. ASSUME hits'[r] \subseteq {"stale"} PROVE Effects(r)' = {}
    <3>1. Once(r)
      BY <2>7, <2>8 DEF OnceInv, OnceUnlessHit
    <3>2. Effects(r) = {}
      BY <1>22, <2>2, <2>3, <3>1 DEF Unlink, At, Once, InHand, Before
    <3> QED BY <1>22, <3>2 DEF Unlink, Effects
  <2>9. OnceUnlessHit(r)'
    BY <2>3, <2>4, <2>7, <2>8, OnceNothing DEF OnceInv
  <2> QED BY <2>1, <2>2, <2>4, <2>5, <2>6, <2>7, <2>9, BegunFrame, OnceLocal
<1>23. ASSUME NEW c \in Everyone, Cancel(c) PROVE OnceInv'
  <2>1. call[c] # Null /\ call[c] \in Call
    BY <1>23 DEF Cancel, At, CallOK
  <2>2. PICK r \in Requests : r = call[c].on
    BY <2>1 DEF Call
  <2>3. c \in AtWork(r)
    BY <1>23, <2>1, <2>2 DEF Cancel, At, AtWork, Domain
  <2>4. Only(c) /\ Keeps(c) /\ Rests(c)
    BY <1>23, <2>1, OnceMoves DEF Cancel
  <2>5. \A q \in Requests : /\ inst[q].status # "none" => inst'[q].status # "none"
                            /\ q # r => inst'[q] = inst[q]
    BY <1>23, <2>2 DEF Cancel, TypeOK, Instance
  <2>6. \A id \in Ids : row'[id] = row[id] \/ row'[id].status # "approved" \/ row'[id].of = r
    BY <1>23, <2>2 DEF Cancel
  <2>7. hits[r] \subseteq hits'[r] /\ \A q \in Requests \ {r} : hits'[q] = hits[q]
    BY <1>23, <2>2 DEF Cancel, Hit, TypeOK
  <2>8. Undisturbed(r)
    <3>1. \A id \in Ids : row'[id] = row[id] \/ row'[id].status # "approved"
      BY <1>23 DEF Cancel
    <3> QED BY <1>23, <2>2, <2>7, <3>1, EffectsShrink
         DEF Cancel, tables, Undisturbed, TypeOK, Instance
  <2>9. OnceUnlessHit(r)'
    BY <1>23, <2>1, <2>2, <2>3, <2>4, <2>8, OnceWork DEF Cancel, At, AtWork, OnceInv, Rests,
      Domain, Before, After, Undoing
  <2> QED BY <2>1, <2>2, <2>4, <2>5, <2>6, <2>7, <2>9, BegunFrame, OnceLocal
<1>24. ASSUME NEW c \in Everyone, Reset(c) PROVE OnceInv'
  <2>1. call[c] # Null /\ call[c] \in Call
    BY <1>24 DEF Reset, At, CallOK
  <2>2. PICK r \in Requests : r = call[c].on
    BY <2>1 DEF Call
  <2>3. c \in AtWork(r)
    BY <1>24, <2>1, <2>2 DEF Reset, At, AtWork, Domain
  <2>4. Only(c) /\ Keeps(c) /\ Rests(c)
    BY <1>24, <2>1, OnceMoves DEF Reset, Rests, Places, Domain
  <2>5. \A q \in Requests : /\ inst[q].status # "none" => inst'[q].status # "none"
                            /\ q # r => inst'[q] = inst[q]
    BY <1>24, <2>2 DEF Reset, TypeOK, Instance
  <2>6. \A id \in Ids : row'[id] = row[id] \/ row'[id].status # "approved" \/ row'[id].of = r
    BY <1>24, <2>2 DEF Reset
  <2>7. hits' = hits
    BY <1>24 DEF Reset
  <2>8. ASSUME hits'[r] \subseteq {"stale"} PROVE Effects(r)' = {}
    <3>1. Once(r)
      BY <2>7, <2>8 DEF OnceInv, OnceUnlessHit
    <3>2. Effects(r) = {}
      BY <1>24, <2>2, <2>3, <3>1 DEF Reset, At, Once, InHand, Before
    <3> QED BY <1>24, <3>2 DEF Reset, Effects
  <2>9. OnceUnlessHit(r)'
    BY <2>3, <2>4, <2>7, <2>8, OnceNothing DEF OnceInv
  <2> QED BY <2>1, <2>2, <2>4, <2>5, <2>6, <2>7, <2>9, BegunFrame, OnceLocal
<1>25. ASSUME NEW c \in Everyone, Claim(c) PROVE OnceInv'
  <2>1. call[c] # Null /\ call[c] \in Call
    BY <1>25 DEF Claim, At, CallOK
  <2>2. PICK r \in Requests : r = call[c].on
    BY <2>1 DEF Call
  <2>3. c \in AtWork(r)
    BY <1>25, <2>1, <2>2 DEF Claim, At, AtWork, Domain
  <2>4. /\ Only(c)
        /\ Keeps(c)
        /\ call'[c] # Null
        /\ call'[c].at = "looking"
        /\ call'[c].on = r
        /\ call'[c].id = call[c].id
    BY <1>25, <2>1, <2>2, OnceMoves DEF Claim, Places, Domain
  <2>5. \A q \in Requests : /\ inst[q].status # "none" => inst'[q].status # "none"
                            /\ q # r => inst'[q] = inst[q]
    BY <1>25, <2>2 DEF Claim, TypeOK, Instance
  <2>6. \A id \in Ids : row'[id] = row[id] \/ row'[id].status # "approved" \/ row'[id].of = r
    BY <1>25, <2>2 DEF Claim
  <2>7. hits' = hits
    BY <1>25 DEF Claim
  <2>8. ASSUME hits'[r] \subseteq {"stale"} PROVE Effects(r)' = {}
    <3>1. Once(r)
      BY <2>7, <2>8 DEF OnceInv, OnceUnlessHit
    <3>2. Effects(r) = {}
      BY <1>25, <2>2, <2>3, <3>1 DEF Claim, At, Once, InHand, Before
    <3> QED BY <1>25, <3>2 DEF Claim, Effects
  <2>9. OnceUnlessHit(r)'
    BY <2>3, <2>4, <2>7, <2>8, OnceNothing DEF OnceInv
  <2> QED BY <2>1, <2>2, <2>4, <2>5, <2>6, <2>7, <2>9, BegunFrame, OnceLocal
<1>26. ASSUME NEW c \in Everyone, LookLeave(c) PROVE OnceInv'
  <2>1. call[c] # Null /\ call[c] \in Call
    BY <1>26 DEF LookLeave, At, CallOK
  <2>2. PICK r \in Requests : r = call[c].on
    BY <2>1 DEF Call
  <2>3. c \in AtWork(r)
    BY <1>26, <2>1, <2>2 DEF LookLeave, At, AtWork, Domain
  <2>4. Only(c) /\ Keeps(c) /\ (Rests(c) \/ call'[c].on = r)
    <3>1. CASE Finish(c)
      BY <2>1, <3>1, OnceMoves
    <3>2. CASE ~Finish(c)
      BY <1>26, <2>1, <2>2, <3>2 DEF LookLeave, Only, Keeps, Rests, CallOK, Call
    <3> QED BY <3>1, <3>2
  <2>5. \A q \in Requests : /\ inst[q].status # "none" => inst'[q].status # "none"
                            /\ q # r => inst'[q] = inst[q]
    BY <1>26, <2>2 DEF LookLeave, Failed, TypeOK, Instance
  <2>6. \A id \in Ids : row'[id] = row[id] \/ row'[id].status # "approved" \/ row'[id].of = r
    BY <1>26, <2>2 DEF LookLeave
  <2>7. hits' = hits
    BY <1>26 DEF LookLeave
  <2>8. ASSUME hits'[r] \subseteq {"stale"} PROVE Effects(r)' = {}
    <3>1. Once(r)
      BY <2>7, <2>8 DEF OnceInv, OnceUnlessHit
    <3>2. Effects(r) = {}
      BY <1>26, <2>2, <2>3, <3>1 DEF LookLeave, At, Once, InHand, Before
    <3> QED BY <1>26, <3>2 DEF LookLeave, Effects
  <2>9. OnceUnlessHit(r)'
    BY <2>3, <2>4, <2>7, <2>8, OnceNothing DEF OnceInv
  <2> QED BY <2>1, <2>2, <2>4, <2>5, <2>6, <2>7, <2>9, BegunFrame, OnceLocal
<1>27. ASSUME NEW c \in Everyone, LookOvertime(c) PROVE OnceInv'
  <2>1. call[c] # Null /\ call[c] \in Call
    BY <1>27 DEF LookOvertime, At, CallOK
  <2>2. PICK r \in Requests : r = call[c].on
    BY <2>1 DEF Call
  <2>3. c \in AtWork(r)
    BY <1>27, <2>1, <2>2 DEF LookOvertime, At, AtWork, Domain
  <2>4. Only(c) /\ Keeps(c) /\ (Rests(c) \/ call'[c].on = r)
    <3>1. CASE Finish(c)
      BY <2>1, <3>1, OnceMoves
    <3>2. CASE Goto(c, "finding")
      BY <2>1, <2>2, <3>2, OnceMoves DEF Places, Domain
    <3> QED BY <1>27, <3>1, <3>2 DEF LookOvertime
  <2>5. \A q \in Requests : /\ inst[q].status # "none" => inst'[q].status # "none"
                            /\ q # r => inst'[q] = inst[q]
    <3>1. CASE Failed(call[c].on)
      BY <2>2, <3>1 DEF Failed, TypeOK, Instance
    <3>2. CASE UNCHANGED inst
      BY <3>2
    <3> QED BY <1>27, <3>1, <3>2 DEF LookOvertime
  <2>6. \A id \in Ids : row'[id] = row[id] \/ row'[id].status # "approved" \/ row'[id].of = r
    BY <1>27, <2>2 DEF LookOvertime
  <2>7. hits' = hits
    BY <1>27 DEF LookOvertime
  <2>8. ASSUME hits'[r] \subseteq {"stale"} PROVE Effects(r)' = {}
    <3>1. Once(r)
      BY <2>7, <2>8 DEF OnceInv, OnceUnlessHit
    <3>2. Effects(r) = {}
      BY <1>27, <2>2, <2>3, <3>1 DEF LookOvertime, At, Once, InHand, Before
    <3> QED BY <1>27, <3>2 DEF LookOvertime, Effects
  <2>9. OnceUnlessHit(r)'
    BY <2>3, <2>4, <2>7, <2>8, OnceNothing DEF OnceInv
  <2> QED BY <2>1, <2>2, <2>4, <2>5, <2>6, <2>7, <2>9, BegunFrame, OnceLocal
<1>38. ASSUME NEW c \in Everyone, FindOvertime(c) PROVE OnceInv'
  <2>1. call[c] # Null /\ call[c] \in Call
    BY <1>38 DEF FindOvertime, At, CallOK
  <2>2. PICK r \in Requests : r = call[c].on
    BY <2>1 DEF Call
  <2>3. c \in AtWork(r)
    BY <1>38, <2>1, <2>2 DEF FindOvertime, At, AtWork, Domain
  <2>5. UNCHANGED <<inst, hits>>
    BY <1>38 DEF FindOvertime
  <2>8. ASSUME hits[r] \subseteq {"stale"} PROVE Effects(r) = {}
    <3>1. Once(r)
      BY <2>8 DEF OnceInv, OnceUnlessHit
    <3> QED BY <1>38, <2>2, <2>3, <3>1 DEF FindOvertime, At, Once, InHand, Before
  <2>6. CASE Live(r) = {}
    <3>1. Only(c) /\ Keeps(c) /\ call'[c].on = r /\ row' = row
      BY <1>38, <2>1, <2>2, <2>6, OnceMoves DEF FindOvertime, Places, Domain
    <3>2. hits'[r] \subseteq {"stale"} => Effects(r)' = {}
      BY <2>5, <2>8, <3>1 DEF Effects
    <3>3. OnceUnlessHit(r)'
      BY <2>3, <2>5, <3>1, <3>2, OnceNothing DEF OnceInv
    <3> QED BY <2>1, <2>2, <2>5, <3>1, <3>3, BegunFrame, OnceLocal
  <2>7. CASE Live(r) # {}
    <3>1. PICK id \in Live(r) :
             /\ row' = [row EXCEPT ![id].status = "approved"]
             /\ call' = [call EXCEPT ![c].id = id, ![c].at = "marking"]
      BY <1>38, <2>2, <2>7 DEF FindOvertime
    <3>2. id \in Ids /\ row[id].of = r
      BY DEF Live
    <3>3. Only(c) /\ Keeps(c) /\ call'[c].on = r /\ call'[c].id = id /\ call'[c].at = "marking"
      BY <2>1, <2>2, <3>1 DEF Only, Keeps, Rests, CallOK, Call
    <3>4. call'[c] # Null
      <4>1. [call[c] EXCEPT !.id = id, !.at = "marking"] \in Call
        BY <2>1, <3>2 DEF Call, Places, Domain
      <4> QED BY <3>1, <4>1, CallAssumption DEF CallOK
    <3>5. \A n \in Ids \ {id} : row'[n] = row[n]
      BY <3>1 DEF TypeOK
    <3>6. \A n \in Ids : row'[n] = row[n] \/ row'[n].status # "approved" \/ row'[n].of = r
      BY <3>1, <3>2, <3>5 DEF TypeOK, Entity
    <3>7. hits'[r] \subseteq {"stale"} => Effects(r)' \subseteq {id}
      BY <2>5, <2>8, <3>5 DEF Effects
    <3>8. c \in AtWork(r)' /\ call'[c].at \in After /\ call'[c].at \notin Before
      BY <3>3, <3>4 DEF AtWork, Before, After, Domain
    <3>9. Known(r)'
      BY <3>8 DEF Known
    <3>10. OnceUnlessHit(r)'
      BY <2>3, <2>5, <3>3, <3>7, <3>8, <3>9, OnceAlone DEF OnceInv
    <3> QED BY <2>1, <2>2, <2>5, <3>3, <3>6, <3>10, BegunFrame, OnceLocal
  <2> QED BY <2>6, <2>7
<1>28. ASSUME NEW c \in Everyone, LookAdvance(c) PROVE OnceInv'
  <2>1. call[c] # Null /\ call[c] \in Call
    BY <1>28 DEF LookAdvance, At, CallOK
  <2>2. PICK r \in Requests : r = call[c].on
    BY <2>1 DEF Call
  <2>3. c \in AtWork(r)
    BY <1>28, <2>1, <2>2 DEF LookAdvance, At, AtWork, Domain
  <2>4. /\ Only(c)
        /\ Keeps(c)
        /\ call'[c] # Null
        /\ call'[c].at = "writing"
        /\ call'[c].on = r
        /\ call'[c].id = call[c].id
    BY <1>28, <2>1, <2>2, OnceMoves DEF LookAdvance, Places, Domain
  <2>5. \A q \in Requests : inst'[q] = inst[q]
    BY <1>28 DEF LookAdvance, tables
  <2>6. \A id \in Ids : row'[id] = row[id] \/ row'[id].status # "approved" \/ row'[id].of = r
    BY <1>28, <2>2 DEF LookAdvance, tables
  <2>7. hits' = hits
    BY <1>28 DEF LookAdvance
  <2>8. ASSUME hits'[r] \subseteq {"stale"} PROVE Effects(r)' = {}
    <3>1. Once(r)
      BY <2>7, <2>8 DEF OnceInv, OnceUnlessHit
    <3>2. Effects(r) = {}
      BY <1>28, <2>2, <2>3, <3>1 DEF LookAdvance, At, Once, InHand, Before
    <3> QED BY <1>28, <3>2 DEF LookAdvance, Effects, tables
  <2>9. OnceUnlessHit(r)'
    BY <2>3, <2>4, <2>7, <2>8, OnceNothing DEF OnceInv
  <2> QED BY <2>1, <2>2, <2>4, <2>5, <2>6, <2>7, <2>9, BegunFrame, OnceLocal
<1>29. ASSUME NEW c \in Everyone, Write(c) PROVE OnceInv'
  <2>1. call[c] # Null /\ call[c] \in Call
    BY <1>29 DEF Write, At, CallOK
  <2>2. PICK r \in Requests : r = call[c].on
    BY <2>1 DEF Call
  <2>3. c \in AtWork(r)
    BY <1>29, <2>1, <2>2 DEF Write, At, AtWork, Domain
  <2> DEFINE id == IF call[c].id # Null THEN call[c].id ELSE NewId
  <2> DEFINE at == IF inst[r].kind = "leave" THEN "consuming" ELSE "marking"
  <2>10. call' = [call EXCEPT ![c].id = id, ![c].at = at]
    BY <1>29, <2>2 DEF Write
  <2>11. at \in After
    BY DEF After
  <2>12. row' = [row EXCEPT ![id] = [of |-> r, status |-> "approved"]]
    BY <1>29, <2>2 DEF Write
  <2>13. id \in Ids
    BY <1>29, <2>1, NewIdType DEF Write, Call
  <2>14. \A n \in Ids \ {id} : row'[n] = row[n]
    BY <2>12 DEF TypeOK
  <2>15. at \in Places
    BY <2>11 DEF After, Places, Domain
  <2> HIDE DEF id, at
  <2>4. Only(c) /\ Keeps(c) /\ call'[c].on = r /\ call'[c].id = id /\ call'[c].at = at
    BY <2>1, <2>2, <2>10 DEF Only, Keeps, Rests, CallOK, Call
  <2>16. call'[c] # Null
    <3>1. [call[c] EXCEPT !.id = id, !.at = at] \in Call
      BY <2>1, <2>13, <2>15 DEF Call
    <3> QED BY <2>10, <3>1, CallAssumption DEF CallOK
  <2>5. \A q \in Requests : inst'[q] = inst[q]
    BY <1>29 DEF Write
  <2>6. \A n \in Ids : row'[n] = row[n] \/ row'[n].status # "approved" \/ row'[n].of = r
    BY <2>12, <2>14 DEF TypeOK
  <2>7. hits' = hits
    BY <1>29 DEF Write
  <2>8. ASSUME hits'[r] \subseteq {"stale"} PROVE Effects(r)' \subseteq {id}
    <3>1. Once(r)
      BY <2>7, <2>8 DEF OnceInv, OnceUnlessHit
    <3>2. Effects(r) = {}
      BY <1>29, <2>2, <2>3, <3>1 DEF Write, At, Once, InHand, Before
    <3> QED BY <2>14, <3>2 DEF Effects
  <2>17. c \in AtWork(r)'
    BY <2>4, <2>11, <2>16 DEF AtWork, After, Domain
  <2>18. Known(r)'
    BY <2>4, <2>11, <2>17 DEF Known
  <2>9. OnceUnlessHit(r)'
    BY <2>3, <2>4, <2>7, <2>8, <2>11, <2>18, OnceAlone DEF OnceInv, Before, After
  <2> QED BY <2>1, <2>2, <2>4, <2>5, <2>6, <2>7, <2>9, BegunFrame, OnceLocal
<1>30. ASSUME NEW c \in Everyone, ReadBalance(c) PROVE OnceInv'
  <2>1. call[c] # Null /\ call[c] \in Call
    BY <1>30 DEF ReadBalance, At, CallOK
  <2>2. PICK r \in Requests : r = call[c].on
    BY <2>1 DEF Call
  <2>3. c \in AtWork(r)
    BY <1>30, <2>1, <2>2 DEF ReadBalance, At, AtWork, Domain
  <2> DEFINE at == IF call[c].at = "consuming" THEN "charging" ELSE "releasing"
  <2>10. call' = [call EXCEPT ![c].read = balance, ![c].at = at]
    BY <1>30, <2>1 DEF ReadBalance, CallOK, Call
  <2>11. /\ at \in Places
         /\ at \in {"charging", "releasing"}
         /\ call[c].at \in {"consuming", "freeing"}
         /\ call[c].at = "consuming" <=> at = "charging"
    BY <1>30 DEF ReadBalance, Places, Domain
  <2> HIDE DEF at
  <2>12. [call[c] EXCEPT !.read = balance, !.at = at] \in Call
    BY <2>1, <2>11 DEF Call, TypeOK
  <2>4. Only(c) /\ Keeps(c) /\ call'[c] # Null /\ call'[c].on = r /\ call'[c].id = call[c].id
        /\ call'[c].at = at
    <3>1. call'[c] = [call[c] EXCEPT !.read = balance, !.at = at] /\ Only(c)
      BY <2>10 DEF CallOK, Only
    <3> QED BY <2>1, <2>2, <2>12, <3>1, CallAssumption DEF Keeps, Call
  <2>5. \A q \in Requests : inst'[q] = inst[q]
    BY <1>30 DEF ReadBalance, tables
  <2>6. \A id \in Ids : row'[id] = row[id] \/ row'[id].status # "approved" \/ row'[id].of = r
    BY <1>30, <2>2 DEF ReadBalance, tables
  <2>7. hits[r] \subseteq hits'[r] /\ \A q \in Requests \ {r} : hits'[q] = hits[q]
    BY <1>30, <2>2 DEF ReadBalance, Hit, TypeOK
  <2>8. Undisturbed(r)
    <3>1. \A id \in Ids : row'[id] = row[id] \/ row'[id].status # "approved"
      BY <1>30 DEF ReadBalance, tables
    <3> QED BY <1>30, <2>2, <2>7, <3>1, EffectsShrink
         DEF ReadBalance, tables, Undisturbed, TypeOK, Instance
  <2>9. OnceUnlessHit(r)'
    BY <2>2, <2>3, <2>4, <2>8, <2>11, OnceWork DEF AtWork, OnceInv, Domain, Before, After, Undoing
  <2> QED BY <2>1, <2>2, <2>4, <2>5, <2>6, <2>7, <2>9, BegunFrame, OnceLocal
<1>31. ASSUME NEW c \in Everyone, Charge(c) PROVE OnceInv'
  <2>1. call[c] # Null /\ call[c] \in Call
    BY <1>31 DEF Charge, At, CallOK
  <2>2. PICK r \in Requests : r = call[c].on
    BY <2>1 DEF Call
  <2>3. c \in AtWork(r)
    BY <1>31, <2>1, <2>2 DEF Charge, At, AtWork, Domain
  <2>4. /\ Only(c)
        /\ Keeps(c)
        /\ call'[c] # Null
        /\ call'[c].at = "marking"
        /\ call'[c].on = r
        /\ call'[c].id = call[c].id
    BY <1>31, <2>1, <2>2, OnceMoves DEF Charge, Places, Domain
  <2>5. \A q \in Requests : inst'[q] = inst[q]
    BY <1>31 DEF Charge, tables
  <2>6. \A id \in Ids : row'[id] = row[id] \/ row'[id].status # "approved" \/ row'[id].of = r
    BY <1>31, <2>2 DEF Charge
  <2>7. hits' = hits
    BY <1>31 DEF Charge
  <2>8. Undisturbed(r)
    <3>1. \A id \in Ids : row'[id] = row[id] \/ row'[id].status # "approved"
      BY <1>31 DEF Charge
    <3> QED BY <1>31, <2>2, <2>7, <3>1, EffectsShrink
         DEF Charge, tables, Undisturbed, TypeOK, Instance
  <2>9. OnceUnlessHit(r)'
    BY <1>31, <2>1, <2>2, <2>3, <2>4, <2>8, OnceWork DEF Charge, At, AtWork, OnceInv, Rests,
      Domain, Before, After, Undoing
  <2> QED BY <2>1, <2>2, <2>4, <2>5, <2>6, <2>7, <2>9, BegunFrame, OnceLocal
<1>32. ASSUME NEW c \in Everyone, Mark(c) PROVE OnceInv'
  <2>1. call[c] # Null /\ call[c] \in Call
    BY <1>32 DEF Mark, At, CallOK
  <2>2. PICK r \in Requests : r = call[c].on
    BY <2>1 DEF Call
  <2>3. c \in AtWork(r)
    BY <1>32, <2>1, <2>2 DEF Mark, At, AtWork, Domain
  <2>4. Only(c) /\ Keeps(c) /\ Rests(c)
    BY <1>32, <2>1, OnceMoves DEF Mark
  <2>5. \A q \in Requests : /\ inst[q].status # "none" => inst'[q].status # "none"
                            /\ q # r => inst'[q] = inst[q]
    BY <1>32, <2>2 DEF Mark, TypeOK, Instance
  <2>6. \A id \in Ids : row'[id] = row[id] \/ row'[id].status # "approved" \/ row'[id].of = r
    BY <1>32, <2>2 DEF Mark
  <2>7. hits' = hits
    BY <1>32 DEF Mark
  <2>8. ASSUME hits'[r] \subseteq {"stale"} PROVE Known(r)'
    <3>1. Once(r)
      BY <2>7, <2>8 DEF OnceInv, OnceUnlessHit
    <3>2. Effects(r) \subseteq {call[c].id}
      BY <1>32, <2>2, <2>3, <3>1 DEF Mark, At, Once, InHand, After
    <3>3. Effects(r)' = Effects(r)
      BY <1>32 DEF Mark, Effects
    <3>4. inst'[r].integration = "completed" /\ inst'[r].entity = call[c].id
      BY <1>32, <2>2 DEF Mark, TypeOK, Instance
    <3>5. CASE call[c].id = Null
      BY <3>2, <3>3, <3>5, RequestAssumption DEF Known, Effects
    <3>6. CASE call[c].id # Null
      BY <3>2, <3>3, <3>4, <3>6 DEF Known, Integrated
    <3> QED BY <3>5, <3>6
  <2>9. OnceUnlessHit(r)'
    BY <2>3, <2>4, <2>7, <2>8, OnceAlone DEF OnceInv, Rests, Domain, AtWork, Before, After, Undoing
  <2> QED BY <2>1, <2>2, <2>4, <2>5, <2>6, <2>7, <2>9, BegunFrame, OnceLocal
<1>33. ASSUME NEW c \in Everyone, Fail(c) PROVE OnceInv'
  <2>1. call[c] # Null /\ call[c] \in Call
    BY <1>33 DEF Fail, At, CallOK
  <2>2. PICK r \in Requests : r = call[c].on
    BY <2>1 DEF Call
  <2>3. c \in AtWork(r)
    BY <1>33, <2>1, <2>2 DEF Fail, At, AtWork, Domain
  <2>4. Only(c) /\ Keeps(c) /\ Rests(c)
    BY <1>33, <2>1, OnceMoves DEF Fail
  <2>5. \A q \in Requests : /\ inst[q].status # "none" => inst'[q].status # "none"
                            /\ q # r => inst'[q] = inst[q]
    BY <1>33, <2>2 DEF Fail, Failed, TypeOK, Instance
  <2>6. \A id \in Ids : row'[id] = row[id] \/ row'[id].status # "approved" \/ row'[id].of = r
    BY <1>33, <2>2 DEF Fail
  <2>7. hits[r] \subseteq hits'[r] /\ \A q \in Requests \ {r} : hits'[q] = hits[q]
    BY <1>33, <2>2 DEF Fail, Hit, TypeOK
  <2>8. ASSUME hits'[r] \subseteq {"stale"} PROVE Effects(r)' = {}
    <3>1. Once(r)
      BY <2>7, <2>8 DEF OnceInv, OnceUnlessHit
    <3>2. call[c].at \in {"looking", "finding", "writing"}
      BY <1>33, <2>2, <2>8 DEF Fail, Unfinished, Hit, TypeOK
    <3>3. Effects(r) = {}
      BY <2>3, <3>1, <3>2 DEF Once, InHand, Before
    <3> QED BY <1>33, <3>3 DEF Fail, Effects
  <2>9. OnceUnlessHit(r)'
    BY <2>3, <2>4, <2>7, <2>8, OnceNothing DEF OnceInv
  <2> QED BY <2>1, <2>2, <2>4, <2>5, <2>6, <2>7, <2>9, BegunFrame, OnceLocal
<1>34. ASSUME NEW c \in Everyone, Crash(c) PROVE OnceInv'
  <2>1. call[c] # Null /\ call[c] \in Call
    BY <1>34 DEF Crash, CallOK
  <2>2. PICK r \in Requests : r = call[c].on
    BY <2>1 DEF Call
  <2>3. Only(c) /\ Keeps(c) /\ Rests(c) /\ UNCHANGED <<inst, row>>
    BY <1>34 DEF Crash, Only, Keeps, Rests, CallOK, tables
  <2>4. Hit(r, IF Unfinished(c) THEN {"crash"} ELSE {})
    BY <1>34, <2>2 DEF Crash
  <2>5. call[c].at \in After => Unfinished(c)
    BY DEF After, Unfinished
  <2> QED BY <2>1, <2>2, <2>3, <2>4, <2>5, OnceStops
<1>39. ASSUME NEW c \in Everyone, Abort(c) PROVE OnceInv'
  <2>1. call[c] # Null /\ call[c] \in Call
    BY <1>39 DEF Abort, CallOK
  <2>2. PICK r \in Requests : r = call[c].on
    BY <2>1 DEF Call
  <2>3. Only(c) /\ Keeps(c) /\ Rests(c) /\ UNCHANGED <<inst, row>>
    BY <1>39, <2>1, OnceMoves DEF Abort, tables
  <2>4. Hit(r, IF Unfinished(c) THEN {"partial"} ELSE {})
    BY <1>39, <2>2 DEF Abort
  <2>5. call[c].at \in After => Unfinished(c)
    BY DEF After, Unfinished
  <2> QED BY <2>1, <2>2, <2>3, <2>4, <2>5, OnceStops
<1>35. CASE Start
  <2>1. Boot \in Everyone
    BY Constants
  <2>2. UNCHANGED <<inst, row, hits>> /\ call[Boot] = Null
    BY <1>35 DEF Start, tables
  <2>3. CASE Incomplete = {}
    BY <1>35, <2>3, OnceUnchanged DEF Start, tables
  <2>4. CASE Incomplete # {}
    <3>1. PICK r \in Incomplete :
             call' = [call EXCEPT ![Boot] = Fresh(r, "checking", Incomplete \ {r})]
      BY <1>35, <2>4 DEF Start
    <3>2. r \in Requests /\ \A q \in Incomplete : q \in Requests /\ inst[q].status # "none"
      BY DEF Incomplete
    <3>3. /\ Only(Boot) /\ Rests(Boot)
          /\ call'[Boot].on = r /\ call'[Boot].todo = Incomplete \ {r}
      BY <2>1, <3>1 DEF CallOK, Only, Rests, Fresh, Domain
    <3>4. Begun'
      BY <2>1, <2>2, <3>2, <3>3, BegunFrame
    <3>5. Undisturbed(r) /\ Boot \notin AtWork(r) /\ Boot \notin AtWork(r)'
      BY <2>2, <3>2, <3>3, EffectsShrink DEF Undisturbed, AtWork, Rests
    <3>6. OnceUnlessHit(r)'
      BY <2>1, <3>2, <3>3, <3>5, OnceFrame DEF OnceInv
    <3> QED BY <2>1, <2>2, <3>2, <3>3, <3>4, <3>6, OnceLocal
  <2> QED BY <2>3, <2>4
<1>36. CASE Deploy
  BY <1>36, OnceUnchanged DEF Deploy, tables
<1>37. CASE UNCHANGED vars
  BY <1>37, OnceUnchanged DEF vars, tables, bounds
<1> QED
  BY <1>1, <1>2, <1>3, <1>4, <1>5, <1>6, <1>7, <1>8, <1>9, <1>10, <1>11, <1>12, <1>13, <1>14,
    <1>15, <1>16, <1>17, <1>18, <1>19, <1>20, <1>21, <1>22, <1>23, <1>24, <1>25, <1>26, <1>27,
    <1>28, <1>29, <1>30, <1>31, <1>32, <1>33, <1>34, <1>35, <1>36, <1>37, <1>38, <1>39
     DEF Next, Arrive, Progress

\* A request has its effect at most once, whatever the number of approvals, retries
\* and starting replicas, as long as no two callers were at work for it at once and
\* none stopped between its writes.
THEOREM IntegratedOnce == Spec => []EffectOnce
<1>1. OnceInv => EffectOnce
  <2> SUFFICES ASSUME OnceInv, NEW r \in Requests, hits[r] \subseteq {"stale"}
               PROVE  Cardinality(Effects(r)) <= 1
    BY DEF EffectOnce
  <2>1. Once(r)
    BY DEF OnceInv, OnceUnlessHit
  <2>2. \E x : Effects(r) \subseteq {x}
    BY <2>1 DEF Once, Known, InHand
  <2>3. PICK x : Effects(r) \subseteq {x}
    BY <2>2
  <2>4. IsFiniteSet({x}) /\ Cardinality({x}) = 1
    BY FS_Singleton
  <2>5. Cardinality(Effects(r)) <= Cardinality({x})
    BY <2>3, <2>4, FS_Subset
  <2>6. Cardinality(Effects(r)) \in Nat
    BY <2>3, <2>4, FS_Subset, FS_CardinalityType
  <2> QED BY <2>4, <2>5, <2>6
<1> QED BY <1>1, OnceInit, OnceStep, PTL DEF Spec
-----------------------------------------------------------------------------
(***************************************************************************)
(* The contract, and what a closed request leaves behind.  Both need that  *)
(* the rows a request, and a call, refer to are the request's own (Owned), *)
(* what a call had seen when it began to withdraw (Sees), and, as long as  *)
(* nothing irregular hit the request, that its effects agree with its      *)
(* status (Sound) and the leave staged for it is the one it names, or a    *)
(* call is about to name or to reject it (Tidy).                           *)
(***************************************************************************)
Granting    == Before \cup After \cup Undoing
Reverting   == Undoing \cup {"unlinking"}
Withdrawing == {"undoing", "cancelling"}
Staging     == {"staging", "creating", "linking"}

\* The rows made for the request.
Mine(r) == {Null} \cup {id \in Ids : row[id].of = r /\ row[id].status # "none"}

\* The leave staged for it.
Staged(r) == {id \in Ids : row[id].of = r /\ row[id].status = "pending"}

\* Who stages it, and who is about to reject it.
Stagers(r)   == {c \in AtWork(r) : call[c].at \in Staging}
Unstagers(r) == {c \in Everyone : call[c] # Null /\ call[c].on = r /\ call[c].at = "unstaging"}

\* A request, and a call, name rows of the request only.
Owned ==
    /\ \A r \in Requests : inst[r].entity \in Mine(r) /\ inst[r].staged \in Mine(r)
    /\ \A c \in Everyone : call[c] # Null => call[c].id \in Mine(call[c].on)

\* What a call saw when it began to withdraw a request.
Sees(c) ==
    /\ call[c].at \in Withdrawing => call[c].seen \in {"draft", "in_review", "approved"}
    /\ call[c].at \in Reverting => call[c].seen = "approved"

WorkSees == \A c \in Everyone : call[c] # Null => Sees(c)

\* Only an approved request has an effect, or somebody who works on one; it has
\* none when it is about to be cancelled.
Sound(r) ==
    /\ inst[r].status # "approved" => Effects(r) = {}
    /\ \A c \in AtWork(r) : /\ call[c].at \in Granting => inst[r].status = "approved"
                            /\ call[c].at = "cancelling" => Effects(r) = {}

\* No step is left to decide, or was decided against the request.
Passed(r) == \A s \in Steps : step[r][s] \in {"none", "approved"}

\* Nothing is staged for a request that is closed, except for one that was approved.
Cleared(r) ==
    /\ inst[r].status \in {"none", "draft"} => Staged(r) = {} /\ Stagers(r) = {}
    /\ inst[r].status = "approved" => Passed(r)
    /\ inst[r].status = "rejected" =>
          \/ Staged(r) = {} /\ Stagers(r) = {}
          \/ Unstagers(r) # {}
    /\ inst[r].status = "cancelled" => Stagers(r) = {} /\ (Staged(r) = {} \/ Passed(r))

\* What is staged is known to the request, or to the call that staged it.
Named(r) ==
    /\ Staged(r) # {} \/ Stagers(r) # {} => inst[r].kind = "leave"
    /\ (\A c \in Stagers(r) : call[c].at # "linking") => Staged(r) \subseteq {inst[r].staged}
    /\ \A c \in AtWork(r) :
          /\ call[c].at \in {"staging", "creating"} => Staged(r) = {}
          /\ call[c].at = "linking" => Staged(r) \subseteq {call[c].id}
          /\ call[c].at = "cancelling" /\ call[c].seen # "approved" => Staged(r) = {}

Tidy(r) == Cleared(r) /\ Named(r)

\* The invariant, for requests nothing irregular hit.
KeptUnlessHit(r) == hits[r] = {} => Sound(r) /\ Tidy(r)

KeptInv ==
    /\ OrderInv
    /\ OnceInv
    /\ Owned
    /\ WorkSees
    /\ \A r \in Requests : KeptUnlessHit(r)

\* A step on one request.
Local(c, r) ==
    /\ \/ UNCHANGED call
       \/ /\ Only(c)
          /\ call[c] = Null \/ call[c].on = r
          /\ call'[c] = Null \/ call'[c].on = r \/ call'[c].at = "checking"
    /\ \A q \in Requests \ {r} :
          inst'[q] = inst[q] /\ step'[q] = step[q] /\ hits'[q] = hits[q]
    /\ hits[r] \subseteq hits'[r]
    /\ \A id \in Ids :
          \/ row'[id] = row[id]
          \/ /\ row'[id].of = r
             /\ row'[id].status # "none"
             /\ row[id].of = r \/ row[id].status = "none"

\* What a request may become, when no decision was written over another.
Course == {<<"none", "draft">>, <<"none", "in_review">>, <<"draft", "in_review">>,
           <<"in_review", "approved">>, <<"in_review", "rejected">>, <<"draft", "cancelled">>,
           <<"in_review", "cancelled">>, <<"approved", "cancelled">>}

\* A step that changes the status changes nothing outside the request.
Decides(r) ==
    hits'[r] = {} =>
        \/ inst'[r].status = inst[r].status
        \/ row' = row /\ <<inst[r].status, inst'[r].status>> \in Course

\* What a step does is the business of one request.
OneRequest ==
    \/ UNCHANGED <<inst, row, hits>>
    \/ \E r \in Requests :
          /\ Decides(r)
          /\ hits[r] \subseteq hits'[r]
          /\ \A q \in Requests \ {r} :
                inst'[q] = inst[q] /\ hits'[q] = hits[q] /\ Effects(q)' = Effects(q)

\* A call ends, or goes on to another request of its list.
Ends(c) == call'[c] = Null \/ (call'[c].at = "checking" /\ call'[c].id = Null)

\* A call goes on with what it has in hand.
Goes(c, place) ==
    /\ call'[c] # Null
    /\ call'[c].at = place
    /\ call'[c].on = call[c].on
    /\ call'[c].id = call[c].id
    /\ call'[c].seen = call[c].seen
    /\ call'[c].read = call[c].read

\* A call ends, goes on, or begins anew; only the own call moves.
LEMMA KeptMoves ==
    ASSUME CallOK, NEW c \in Everyone, call[c] # Null
    PROVE  /\ Finish(c) => Only(c) /\ Ends(c)
           /\ \A place \in Places : Goto(c, place) => Only(c) /\ Goes(c, place)
           /\ \A place \in Places : GotoFresh(c, place) =>
                 /\ Only(c)
                 /\ call'[c] # Null
                 /\ call'[c].at = place
                 /\ call'[c].on = call[c].on
                 /\ call'[c].id = Null
<1>1. call[c] \in Call
  BY DEF CallOK
<1>2. Finish(c) => Only(c) /\ Ends(c)
  BY DEF Finish, CallOK, Only, Ends, Fresh
<1>3. ASSUME NEW place \in Places, Goto(c, place) PROVE Only(c) /\ Goes(c, place)
  <2>1. [call[c] EXCEPT !.at = place] \in Call
    BY <1>1 DEF Call
  <2>2. call'[c] = [call[c] EXCEPT !.at = place] /\ Only(c)
    BY <1>3 DEF Goto, CallOK, Only
  <2> QED BY <1>1, <2>1, <2>2, CallAssumption DEF Call, Goes
<1>4. ASSUME NEW place \in Places, GotoFresh(c, place)
      PROVE  /\ Only(c)
             /\ call'[c] # Null
             /\ call'[c].at = place
             /\ call'[c].on = call[c].on
             /\ call'[c].id = Null
  <2>1. Fresh(call[c].on, place, call[c].todo) \in Call
    BY <1>1, FreshType DEF Call
  <2>2. call'[c] = Fresh(call[c].on, place, call[c].todo) /\ Only(c)
    BY <1>4 DEF GotoFresh, CallOK, Only
  <2> QED BY <2>1, <2>2, CallAssumption DEF Fresh
<1> QED BY <1>2, <1>3, <1>4

\* A call begins with the status it has read.
LEMMA KeptBegins ==
    ASSUME TypeOK, NEW c \in Everyone, NEW r \in Requests, NEW place \in Places,
           NEW s \in Steps \cup {Null}, Occupy(c, r, place, s)
    PROVE  /\ Only(c)
           /\ call[c] = Null
           /\ call'[c] # Null
           /\ call'[c].at = place
           /\ call'[c].on = r
           /\ call'[c].id = Null
           /\ call'[c].seen = inst[r].status
<1>1. inst[r].status \in Status
  BY DEF TypeOK, Instance
<1>2. Fresh(r, place, {}) \in Call
  BY FreshType
<1>3. [Fresh(r, place, {}) EXCEPT !.seen = inst[r].status, !.step = s] \in Call
  BY <1>1, <1>2 DEF Call
<1>4. call'[c] = [Fresh(r, place, {}) EXCEPT !.seen = inst[r].status, !.step = s]
      /\ call[c] = Null /\ Only(c)
  BY DEF Occupy, TypeOK, Only
<1> QED BY <1>3, <1>4, CallAssumption DEF Fresh

\* Rows are not taken away, and the rows of another request stay as they are.
LEMMA Elsewhere ==
    ASSUME NEW c \in Everyone, NEW r \in Requests, Local(c, r)
    PROVE  /\ \A q \in Requests : Mine(q) \subseteq Mine(q)'
           /\ \A q \in Requests \ {r} :
                 /\ Effects(q)' = Effects(q)
                 /\ Staged(q)' = Staged(q)
                 /\ AtWork(q)' = AtWork(q)
                 /\ \A d \in AtWork(q) : call'[d] = call[d]
                 /\ Unstagers(q)' = Unstagers(q)
<1>1. \A q \in Requests : Mine(q) \subseteq Mine(q)'
  BY DEF Local, Mine
<1> SUFFICES ASSUME NEW q \in Requests, q # r
             PROVE  /\ Effects(q)' = Effects(q)
                    /\ Staged(q)' = Staged(q)
                    /\ AtWork(q)' = AtWork(q)
                    /\ \A d \in AtWork(q) : call'[d] = call[d]
                    /\ Unstagers(q)' = Unstagers(q)
  BY <1>1
<1>2. Effects(q)' = Effects(q) /\ Staged(q)' = Staged(q)
  BY DEF Local, Effects, Staged
<1>3. AtWork(q)' = AtWork(q) /\ \A d \in AtWork(q) : call'[d] = call[d]
  BY DEF Local, AtWork, Only, Domain
<1>4. Unstagers(q)' = Unstagers(q)
  BY DEF Local, Unstagers, Only
<1> QED BY <1>2, <1>3, <1>4

\* So a step keeps the invariant when it does for its own request and call.
LEMMA KeptLocal ==
    ASSUME KeptInv, OrderInv', OnceInv', NEW c \in Everyone, NEW r \in Requests, Local(c, r),
           inst'[r].entity \in Mine(r)',
           inst'[r].staged \in Mine(r)',
           UNCHANGED call \/ call'[c] = Null
              \/ (Sees(c)' /\ \E q \in Requests : call'[c].on = q /\ call'[c].id \in Mine(q)'),
           KeptUnlessHit(r)',
           Decides(r)
    PROVE  KeptInv' /\ OneRequest
<1>1. ASSUME NEW q \in Requests PROVE inst'[q].entity \in Mine(q)' /\ inst'[q].staged \in Mine(q)'
  <2>1. CASE q = r
    BY <2>1
  <2>2. CASE q # r
    BY <2>2, Elsewhere DEF Local, KeptInv, Owned
  <2> QED BY <2>1, <2>2
<1>2. ASSUME NEW d \in Everyone, call'[d] # Null
      PROVE  Sees(d)' /\ \E q \in Requests : call'[d].on = q /\ call'[d].id \in Mine(q)'
  <2>1. CASE call'[d] = call[d]
    <3>1. PICK q \in Requests : call[d].on = q
      BY <1>2, <2>1 DEF KeptInv, OrderInv, TypeOK, Call
    <3>2. call[d].id \in Mine(q) /\ Sees(d)
      BY <1>2, <2>1, <3>1 DEF KeptInv, Owned, WorkSees
    <3>3. Mine(q) \subseteq Mine(q)'
      BY Elsewhere
    <3> QED BY <2>1, <3>1, <3>2, <3>3 DEF Sees
  <2>2. CASE call'[d] # call[d]
    <3>1. d = c /\ ~UNCHANGED call
      BY <2>2 DEF Local, Only
    <3> QED BY <1>2, <3>1
  <2> QED BY <2>1, <2>2
<1>3. ASSUME NEW q \in Requests PROVE KeptUnlessHit(q)'
  <2>1. CASE q = r
    BY <2>1
  <2>2. CASE q # r
    <3>1. /\ Effects(q)' = Effects(q)
          /\ Staged(q)' = Staged(q)
          /\ AtWork(q)' = AtWork(q)
          /\ \A d \in AtWork(q) : call'[d] = call[d]
          /\ Unstagers(q)' = Unstagers(q)
      BY <2>2, Elsewhere
    <3>2. inst'[q] = inst[q] /\ step'[q] = step[q] /\ hits'[q] = hits[q]
      BY <2>2 DEF Local
    <3>3. KeptUnlessHit(q)
      BY DEF KeptInv
    <3>4. Stagers(q)' = Stagers(q)
      BY <3>1 DEF Stagers
    <3>5. Sound(q) => Sound(q)'
      BY <3>1, <3>2 DEF Sound
    <3>6. Cleared(q) => Cleared(q)'
      BY <3>1, <3>2, <3>4 DEF Cleared, Passed
    <3>7. Named(q) => Named(q)'
      BY <3>1, <3>2, <3>4 DEF Named, Stagers
    <3> QED BY <3>2, <3>3, <3>5, <3>6, <3>7 DEF KeptUnlessHit, Tidy
  <2> QED BY <2>1, <2>2
<1>4. KeptInv'
  BY <1>1, <1>2, <1>3 DEF KeptInv, Owned, WorkSees
<1>5. OneRequest
  BY Elsewhere DEF OneRequest, Local
<1> QED BY <1>4, <1>5

\* Effects and status agree after a step when they agree for the call that moved.
LEMMA SoundStep ==
    ASSUME NEW c \in Everyone, NEW r \in Requests, Local(c, r), KeptUnlessHit(r),
           OnceUnlessHit(r), hits'[r] = {},
           inst'[r].status # "approved" => Effects(r)' = {},
           inst[r].status = "approved" => inst'[r].status = "approved" \/ c \in AtWork(r),
           Effects(r)' \subseteq Effects(r) \/ c \in AtWork(r),
           c \in AtWork(r)' =>
              /\ call'[c].at \in Granting => inst'[r].status = "approved"
              /\ call'[c].at = "cancelling" => Effects(r)' = {}
    PROVE  Sound(r)'
<1>1. hits[r] = {}
  BY DEF Local
<1>2. Sound(r) /\ Alone(r)
  BY <1>1 DEF KeptUnlessHit, OnceUnlessHit, Once
<1>3. ASSUME NEW d \in AtWork(r)', d # c
      PROVE  /\ call'[d].at \in Granting => inst'[r].status = "approved"
             /\ call'[d].at = "cancelling" => Effects(r)' = {}
  <2>1. d \in AtWork(r) /\ call'[d] = call[d]
    BY <1>3 DEF Local, AtWork, Only
  <2>2. c \notin AtWork(r)
    BY <1>2, <1>3, <2>1 DEF Alone
  <2> QED BY <1>2, <2>1, <2>2 DEF Sound
<1> QED BY <1>3 DEF Sound

\* What is staged keeps its name when nobody stages or names it in the step.
LEMMA NamedSame ==
    ASSUME NEW c \in Everyone, NEW r \in Requests, Local(c, r), Named(r),
           inst'[r].kind = inst[r].kind,
           inst'[r].staged = inst[r].staged,
           Staged(r)' \subseteq Staged(r),
           c \notin Stagers(r),
           c \notin Stagers(r)',
           c \in AtWork(r)' /\ call'[c].at = "cancelling" =>
              call'[c].seen = "approved" \/ Staged(r)' = {}
    PROVE  Named(r)' /\ Stagers(r)' = Stagers(r)
<1>1. \A d \in Everyone \ {c} : call'[d] = call[d]
  BY DEF Local, Only
<1>2. Stagers(r)' = Stagers(r)
  BY <1>1 DEF Stagers, AtWork
<1>3. \A d \in Stagers(r) : call'[d] = call[d]
  BY <1>1 DEF Stagers, AtWork
<1>4. ASSUME NEW d \in AtWork(r)'
      PROVE  /\ call'[d].at \in {"staging", "creating"} => Staged(r)' = {}
             /\ call'[d].at = "linking" => Staged(r)' \subseteq {call'[d].id}
             /\ call'[d].at = "cancelling" /\ call'[d].seen # "approved" => Staged(r)' = {}
  <2>1. CASE d = c
    BY <1>4, <2>1 DEF Stagers, Staging
  <2>2. CASE d # c
    <3>1. d \in AtWork(r) /\ call'[d] = call[d]
      BY <1>1, <2>2 DEF AtWork
    <3> QED BY <3>1 DEF Named
  <2> QED BY <2>1, <2>2
<1> QED BY <1>2, <1>3, <1>4 DEF Named

\* Nothing staged needs no name.
LEMMA NamedNothing ==
    ASSUME NEW r, Staged(r) = {}, Stagers(r) # {} => inst[r].kind = "leave"
    PROVE  Named(r)
BY DEF Named

\* What is staged stays in order when the request and its steps do not change.
LEMMA TidySame ==
    ASSUME NEW c \in Everyone, NEW r \in Requests, Local(c, r), Tidy(r),
           inst'[r].status = inst[r].status,
           inst'[r].kind = inst[r].kind,
           inst'[r].staged = inst[r].staged,
           step'[r] = step[r],
           Staged(r)' \subseteq Staged(r),
           c \notin Stagers(r),
           c \notin Unstagers(r),
           c \notin Stagers(r)',
           c \in AtWork(r)' /\ call'[c].at = "cancelling" =>
              call'[c].seen = "approved" \/ Staged(r)' = {}
    PROVE  Tidy(r)'
<1>1. Named(r)' /\ Stagers(r)' = Stagers(r)
  BY NamedSame DEF Tidy
<1>2. Unstagers(r) \subseteq Unstagers(r)'
  BY DEF Local, Only, Unstagers
<1> QED BY <1>1, <1>2 DEF Tidy, Cleared, Passed

\* The row a step writes is the request's.
LEMMA OwnRow ==
    ASSUME TypeOK, NEW r \in Requests, NEW id \in Ids,
           \A n \in Ids \ {id} : row'[n] = row[n],
           row'[id].of = r,
           row'[id].status # "none",
           row[id].of = r \/ row[id].status = "none"
    PROVE  \A n \in Ids :
              \/ row'[n] = row[n]
              \/ /\ row'[n].of = r
                 /\ row'[n].status # "none"
                 /\ row[n].of = r \/ row[n].status = "none"
OBVIOUS

\* A call that goes on to another request has nothing in hand.
LEMMA EndsEmpty ==
    ASSUME OrderInv', NEW c \in Everyone, Ends(c)
    PROVE  \/ call'[c] = Null
           \/ Sees(c)' /\ \E q \in Requests : call'[c].on = q /\ call'[c].id \in Mine(q)'
<1>1. call'[c] # Null => call'[c].on \in Requests
  BY DEF OrderInv, TypeOK, Call
<1>2. call'[c] # Null => Sees(c)' /\ call'[c].id = Null
  BY DEF Ends, Sees, Withdrawing, Reverting, Undoing
<1>3. \A q \in Requests : Null \in Mine(q)'
  BY DEF Mine
<1> QED BY <1>1, <1>2, <1>3

\* Most steps leave the request's status, steps and staged leave alone.
LEMMA KeptSame ==
    ASSUME KeptInv, OrderInv', OnceInv', NEW c \in Everyone, NEW r \in Requests,
           call[c] = Null \/ call[c].on = r,
           Only(c),
           \A q \in Requests \ {r} :
              inst'[q] = inst[q] /\ step'[q] = step[q] /\ hits'[q] = hits[q],
           hits[r] \subseteq hits'[r],
           \A id \in Ids :
              \/ row'[id] = row[id]
              \/ /\ row'[id].of = r
                 /\ row'[id].status # "none"
                 /\ row[id].of = r \/ row[id].status = "none",
           inst'[r].status = inst[r].status,
           inst'[r].kind = inst[r].kind,
           inst'[r].staged = inst[r].staged,
           step'[r] = step[r],
           inst'[r].entity \in Mine(r)',
           Staged(r)' \subseteq Staged(r),
           hits'[r] = {} =>
              /\ \/ Effects(r)' \subseteq Effects(r)
                 \/ c \in AtWork(r) /\ inst[r].status = "approved"
              /\ c \notin Stagers(r)
              /\ c \notin Unstagers(r),
           \/ Ends(c)
           \/ /\ call'[c] # Null
              /\ call'[c].on = r
              /\ call'[c].id \in Mine(r)'
              /\ call'[c].at \notin Staging
              /\ Sees(c)'
              /\ hits'[r] = {} =>
                    /\ call'[c].at \in Granting => inst[r].status = "approved"
                    /\ call'[c].at = "cancelling" =>
                          Effects(r)' = {} /\ (call'[c].seen = "approved" \/ Staged(r)' = {})
    PROVE  KeptInv' /\ OneRequest
<1>1. Local(c, r)
  BY DEF Local, Ends
<1>2. inst'[r].staged \in Mine(r)'
  BY <1>1, Elsewhere DEF KeptInv, Owned
<1>3. \/ UNCHANGED call
      \/ call'[c] = Null
      \/ Sees(c)' /\ \E q \in Requests : call'[c].on = q /\ call'[c].id \in Mine(q)'
  <2>1. CASE Ends(c)
    BY <2>1, EndsEmpty
  <2>2. CASE ~Ends(c)
    BY <2>2
  <2> QED BY <2>1, <2>2
<1>4. KeptUnlessHit(r) /\ OnceUnlessHit(r)
  BY DEF KeptInv, OnceInv
<1>5. ASSUME hits'[r] = {} PROVE Sound(r)' /\ Tidy(r)'
  <2>1. hits[r] = {} /\ Sound(r) /\ Tidy(r)
    BY <1>4, <1>5 DEF KeptUnlessHit
  <2>2. Sound(r)'
    <3>1. inst'[r].status # "approved" => Effects(r)' = {}
      BY <1>5, <2>1 DEF Sound
    <3>2. c \in AtWork(r)' =>
              /\ call'[c].at \in Granting => inst'[r].status = "approved"
              /\ call'[c].at = "cancelling" => Effects(r)' = {}
      <4>1. CASE Ends(c)
        BY <4>1 DEF Ends, AtWork, Domain
      <4>2. CASE ~Ends(c)
        BY <1>5, <4>2
      <4> QED BY <4>1, <4>2
    <3> QED BY <1>1, <1>4, <1>5, <3>1, <3>2, SoundStep
  <2>3. Tidy(r)'
    <3>1. c \notin Stagers(r)'
      BY DEF Ends, Stagers, AtWork, Domain
    <3>2. c \in AtWork(r)' /\ call'[c].at = "cancelling" =>
              call'[c].seen = "approved" \/ Staged(r)' = {}
      BY <1>5 DEF Ends, AtWork, Domain
    <3> QED BY <1>1, <2>1, <3>1, <3>2, <1>5, TidySame
  <2> QED BY <2>2, <2>3
<1>6. KeptUnlessHit(r)'
  BY <1>5 DEF KeptUnlessHit
<1>7. Decides(r)
  BY DEF Decides
<1> QED BY <1>1, <1>2, <1>3, <1>6, <1>7, KeptLocal

\* A step that moves no call and changes nothing keeps the invariant.
LEMMA KeptUnchanged ==
    ASSUME KeptInv, OrderInv', OnceInv', UNCHANGED <<inst, step, row, call, hits>>
    PROVE  KeptInv' /\ OneRequest
<1>1. Owned' /\ WorkSees'
  BY DEF KeptInv, Owned, Mine, WorkSees, Sees
<1>2. ASSUME NEW r \in Requests PROVE KeptUnlessHit(r)'
  <2>1. KeptUnlessHit(r)
    BY DEF KeptInv
  <2>2. /\ Effects(r)' = Effects(r)
        /\ Staged(r)' = Staged(r)
        /\ AtWork(r)' = AtWork(r)
        /\ Unstagers(r)' = Unstagers(r)
    BY DEF Effects, Staged, AtWork, Unstagers
  <2>3. Stagers(r)' = Stagers(r)
    BY <2>2 DEF Stagers
  <2>4. Sound(r) => Sound(r)'
    BY <2>2 DEF Sound
  <2>5. Tidy(r) => Tidy(r)'
    BY <2>2, <2>3 DEF Tidy, Cleared, Passed, Named
  <2> QED BY <2>1, <2>4, <2>5 DEF KeptUnlessHit
<1>3. OneRequest
  BY DEF OneRequest
<1> QED BY <1>1, <1>2, <1>3 DEF KeptInv

\* So does a step that writes none of the other modules' rows.
LEMMA KeptStill ==
    ASSUME KeptInv, OrderInv', OnceInv', NEW c \in Everyone, NEW r \in Requests,
           call[c] = Null \/ (call[c].on = r /\ call[c].at \notin Staging \cup {"unstaging"}),
           Only(c),
           UNCHANGED <<row, step>>,
           \A q \in Requests \ {r} : inst'[q] = inst[q] /\ hits'[q] = hits[q],
           hits[r] \subseteq hits'[r],
           inst'[r].status = inst[r].status,
           inst'[r].kind = inst[r].kind,
           inst'[r].staged = inst[r].staged,
           inst'[r].entity \in Mine(r),
           \/ Ends(c)
           \/ /\ call'[c] # Null
              /\ call'[c].on = r
              /\ call'[c].id \in Mine(r)
              /\ call'[c].at \notin Staging
              /\ Sees(c)'
              /\ hits'[r] = {} =>
                    /\ call'[c].at \in Granting => inst[r].status = "approved"
                    /\ call'[c].at = "cancelling" => Effects(r) = {} /\ call'[c].seen = "approved"
    PROVE  KeptInv' /\ OneRequest
<1>1. (Mine(r)' = Mine(r)) /\ (Staged(r)' = Staged(r)) /\ (Effects(r)' = Effects(r))
  BY DEF Mine, Staged, Effects
<1>2. c \notin Stagers(r) /\ c \notin Unstagers(r)
  BY DEF Stagers, Unstagers, AtWork
<1> QED BY <1>1, <1>2, KeptSame

\* A call that begins has nothing in hand.
LEMMA KeptBegin ==
    ASSUME KeptInv, OrderInv', OnceInv', NEW c \in Everyone, NEW r \in Requests,
           NEW place \in Places, NEW s \in Steps \cup {Null}, Occupy(c, r, place, s),
           UNCHANGED <<inst, step, row>>,
           \A q \in Requests \ {r} : hits'[q] = hits[q],
           hits[r] \subseteq hits'[r],
           place \notin Staging \cup Reverting \cup {"cancelling"},
           place = "undoing" => inst[r].status \in {"draft", "in_review", "approved"},
           place \in Granting => inst[r].status = "approved"
    PROVE  KeptInv' /\ OneRequest
<1>1. TypeOK
  BY DEF KeptInv, OrderInv
<1>2. /\ Only(c)
      /\ call[c] = Null
      /\ call'[c] # Null
      /\ call'[c].at = place
      /\ call'[c].on = r
      /\ call'[c].id = Null
      /\ call'[c].seen = inst[r].status
  BY <1>1, KeptBegins
<1>3. Null \in Mine(r) /\ inst[r].entity \in Mine(r)
  BY DEF Mine, KeptInv, Owned
<1>4. Sees(c)'
  BY <1>2 DEF Sees, Withdrawing
<1> QED BY <1>2, <1>3, <1>4, KeptStill

\* What the invariant says of a call at work.
LEMMA KeptCall ==
    ASSUME KeptInv, NEW c \in Everyone, call[c] # Null, NEW r \in Requests, call[c].on = r
    PROVE  /\ call[c].id \in Mine(r)
           /\ Sees(c)
           /\ inst[r].entity \in Mine(r)
           /\ inst[r].staged \in Mine(r)
           /\ Null \in Mine(r)
           /\ hits[r] = {} => Once(r) /\ Sound(r) /\ Tidy(r)
           /\ hits[r] = {} /\ call[c].at \in Granting => inst[r].status = "approved"
<1>1. /\ call[c].id \in Mine(r)
      /\ Sees(c)
      /\ inst[r].entity \in Mine(r)
      /\ inst[r].staged \in Mine(r)
      /\ Null \in Mine(r)
  BY DEF KeptInv, Owned, WorkSees, Mine
<1>2. hits[r] = {} => Once(r) /\ Sound(r) /\ Tidy(r)
  BY DEF KeptInv, OnceInv, OnceUnlessHit, KeptUnlessHit
<1>3. call[c].at \in Granting => c \in AtWork(r)
  BY DEF Granting, Before, After, Undoing, AtWork, Domain
<1> QED BY <1>1, <1>2, <1>3 DEF Sound

\* Remembering an irregularity concerns one request.
LEMMA HitMoves ==
    ASSUME TypeOK, NEW r \in Requests, NEW what, Hit(r, what)
    PROVE  /\ hits[r] \subseteq hits'[r]
           /\ what \subseteq hits'[r]
           /\ \A q \in Requests \ {r} : hits'[q] = hits[q]
BY DEF Hit, TypeOK

\* Rejecting what is staged changes no other row, and leaves none that the request names.
LEMMA StagedWithdrawn ==
    ASSUME TablesOK, NEW r \in Requests, inst[r].staged \in Mine(r),
           row' = RejectedStaged(r) \/ row' = row
    PROVE  /\ \A id \in Ids :
                 \/ row'[id] = row[id]
                 \/ /\ row[id].of = r /\ row'[id].of = r /\ row[id].status = "pending"
                    /\ row'[id].status = "rejected"
           /\ row' = RejectedStaged(r) => Staged(r)' \subseteq
                 Staged(r) \ (IF inst[r].kind = "leave" THEN {inst[r].staged} ELSE {})
<1> DEFINE id == inst[r].staged
<1>1. CASE inst[r].kind = "leave" /\ id # Null /\ row[id].status = "pending"
  <2>1. id \in Ids /\ row[id].of = r
    BY <1>1 DEF Mine
  <2>2. RejectedStaged(r) = [row EXCEPT ![id].status = "rejected"]
    BY <1>1 DEF RejectedStaged
  <2>3. row[id] \in Entity
    BY <2>1 DEF TablesOK
  <2>4. /\ RejectedStaged(r)[id].of = r
        /\ RejectedStaged(r)[id].status = "rejected"
        /\ \A n \in Ids \ {id} : RejectedStaged(r)[n] = row[n]
    BY <2>1, <2>2, <2>3 DEF TablesOK, Entity
  <2> HIDE DEF id
  <2>5. \A n \in Ids :
           \/ row'[n] = row[n]
           \/ /\ row[n].of = r /\ row'[n].of = r /\ row[n].status = "pending"
              /\ row'[n].status = "rejected"
    BY <1>1, <2>1, <2>4
  <2>6. row' = RejectedStaged(r) => Staged(r)' \subseteq Staged(r) \ {id}
    BY <2>1, <2>4 DEF Staged
  <2> QED BY <2>5, <2>6 DEF id
<1>2. CASE ~(inst[r].kind = "leave" /\ id # Null /\ row[id].status = "pending")
  <2>1. RejectedStaged(r) = row
    BY <1>2 DEF RejectedStaged
  <2>2. row' = row
    BY <2>1
  <2>3. inst[r].kind = "leave" => id \notin Staged(r)
    BY <1>2, Constants DEF Staged
  <2>4. Staged(r)' = Staged(r)
    BY <2>2 DEF Staged
  <2> QED BY <2>2, <2>3, <2>4
<1> QED BY <1>1, <1>2

\* What a call at one place says of the request, when nothing irregular hit it.
LEMMA KeptAlone ==
    ASSUME NEW c \in Everyone, NEW r \in Requests, Once(r), c \in AtWork(r)
    PROVE  /\ \A d \in AtWork(r) : d = c
           /\ Only(c) => AtWork(r)' \subseteq {c}
BY DEF Once, Alone, AtWork, Only

\* What the invariant says of a request when a step is over.
LEMMA KeptBefore ==
    ASSUME KeptInv, NEW r \in Requests, hits[r] \subseteq hits'[r], hits'[r] = {}
    PROVE  Once(r) /\ Sound(r) /\ Tidy(r) /\ Orderly(r)
BY DEF KeptInv, OnceInv, OnceUnlessHit, KeptUnlessHit, OrderInv, OrderlyUnlessStale

\* A new draft has nothing to keep.
LEMMA KeptDraft ==
    ASSUME KeptInv, OrderInv', OnceInv', NEW r \in Requests, NEW kind \in Kinds,
           CreateDraft(r, kind)
    PROVE  KeptInv' /\ OneRequest
<1>1. TypeOK /\ TypeOK' /\ Boot \in Everyone
  BY Constants DEF KeptInv, OrderInv
<1>2. /\ inst[r].status = "none"
      /\ inst'[r].status = "draft"
      /\ inst'[r].entity = inst[r].entity
      /\ inst'[r].staged = inst[r].staged
      /\ \A q \in Requests \ {r} : inst'[q] = inst[q]
      /\ UNCHANGED <<step, row, call, hits>>
  BY <1>1 DEF CreateDraft, TypeOK, Instance
<1>3. Local(Boot, r)
  BY <1>2 DEF Local
<1>4. (Mine(r)' = Mine(r)) /\ (Staged(r)' = Staged(r)) /\ (Effects(r)' = Effects(r))
      /\ (AtWork(r)' = AtWork(r)) /\ (Stagers(r)' = Stagers(r))
  BY <1>2 DEF Mine, Staged, Effects, AtWork, Stagers
<1>5. AtWork(r) = {}
  BY <1>2 DEF KeptInv, OnceInv, Begun, AtWork
<1>6. ASSUME hits'[r] = {} PROVE Sound(r)' /\ Tidy(r)'
  <2>1. Sound(r) /\ Tidy(r)
    BY <1>2, <1>6, KeptBefore
  <2>2. Effects(r) = {} /\ Staged(r) = {} /\ Stagers(r) = {}
    BY <1>2, <2>1 DEF Sound, Tidy, Cleared
  <2>3. Sound(r)'
    BY <1>4, <1>5, <2>2 DEF Sound
  <2>4. Cleared(r)'
    BY <1>2, <1>4, <2>2 DEF Cleared
  <2>5. Named(r)'
    BY <1>4, <1>5, <2>2 DEF Named
  <2> QED BY <2>3, <2>4, <2>5 DEF Tidy
<1>7. Decides(r)
  BY <1>2 DEF Decides, Course
<1>8. inst[r].entity \in Mine(r) /\ inst[r].staged \in Mine(r)
  BY DEF KeptInv, Owned
<1> QED BY <1>1, <1>2, <1>3, <1>4, <1>6, <1>7, <1>8, KeptLocal DEF KeptUnlessHit

\* What is submitted has nothing staged, and at most the submitting call at it.
LEMMA KeptInReview ==
    ASSUME KeptInv, OrderInv', OnceInv', NEW c \in Everyone, NEW r \in Requests,
           Local(c, r),
           UNCHANGED row,
           inst'[r].status = "in_review",
           inst'[r].entity = inst[r].entity,
           inst'[r].staged = inst[r].staged,
           hits'[r] = {} => inst[r].status \in {"none", "draft"},
           \/ UNCHANGED call /\ c \notin AtWork(r)
           \/ Ends(c)
           \/ /\ call'[c] # Null
              /\ call'[c].on = r
              /\ call'[c].id \in Mine(r)
              /\ call'[c].at = "staging"
              /\ inst'[r].kind = "leave"
              /\ hits'[r] = {} => AtWork(r) \ {c} = {}
    PROVE  KeptInv' /\ OneRequest
<1>1. (Mine(r)' = Mine(r)) /\ (Staged(r)' = Staged(r)) /\ (Effects(r)' = Effects(r))
  BY DEF Mine, Staged, Effects
<1>2. inst[r].entity \in Mine(r) /\ inst[r].staged \in Mine(r) /\ KeptUnlessHit(r)
      /\ OnceUnlessHit(r)
  BY DEF KeptInv, Owned, OnceInv
<1>3. c \in AtWork(r)' => call'[c].at = "staging" /\ inst'[r].kind = "leave"
  BY DEF AtWork, Ends, Domain
<1>4. ASSUME hits'[r] = {} PROVE Sound(r)' /\ Tidy(r)'
  <2>1. Sound(r) /\ Tidy(r)
    BY <1>4, KeptBefore DEF Local
  <2>2. inst[r].status \in {"none", "draft"} /\ Effects(r) = {} /\ Staged(r) = {} /\ Stagers(r) = {}
    BY <1>4, <2>1 DEF Sound, Tidy, Cleared
  <2>3. Sound(r)'
    BY <1>1, <1>2, <1>3, <1>4, <2>2, SoundStep DEF Granting, Before, After, Undoing
  <2>4. Stagers(r)' # {} => inst'[r].kind = "leave"
    <3>1. \A d \in Stagers(r)' : d = c
      BY <2>2 DEF Stagers, AtWork, Local, Only
    <3> QED BY <1>3, <3>1 DEF Stagers
  <2>5. Named(r)'
    BY <1>1, <2>2, <2>4 DEF Named
  <2>6. Cleared(r)'
    BY DEF Cleared
  <2> QED BY <2>3, <2>5, <2>6 DEF Tidy
<1>5. Decides(r)
  BY DEF Decides, Course
<1>6. UNCHANGED call \/ call'[c] = Null
      \/ (Sees(c)' /\ \E q \in Requests : call'[c].on = q /\ call'[c].id \in Mine(q)')
  <2>1. call'[c] # Null => \E q \in Requests : call'[c].on = q
    BY DEF OrderInv, TypeOK, Call
  <2>2. ~UNCHANGED call /\ ~Ends(c) => Sees(c)'
    BY DEF Sees, Withdrawing, Reverting, Undoing
  <2>3. CASE Ends(c)
    BY <2>3, EndsEmpty
  <2>4. CASE ~Ends(c)
    BY <1>1, <2>1, <2>2, <2>4
  <2> QED BY <2>3, <2>4
<1> QED BY <1>1, <1>2, <1>4, <1>5, <1>6, KeptLocal DEF KeptUnlessHit

\* A request created and submitted at once, ...
LEMMA KeptCreateAndSubmit ==
    ASSUME KeptInv, OrderInv', OnceInv', NEW c \in Callers, NEW r \in Requests,
           NEW kind \in Kinds, NEW n \in Submissions, CreateAndSubmit(c, r, kind, n)
    PROVE  KeptInv' /\ OneRequest
<1>1. TypeOK /\ c \in Everyone
  BY Constants DEF KeptInv, OrderInv
<1>2. /\ inst[r].status = "none"
      /\ inst'[r].status = "in_review"
      /\ inst'[r].kind = kind
      /\ inst'[r].entity = inst[r].entity
      /\ inst'[r].staged = inst[r].staged
      /\ \A q \in Requests \ {r} : inst'[q] = inst[q] /\ step'[q] = step[q]
      /\ UNCHANGED <<row, hits>>
  BY <1>1 DEF CreateAndSubmit, TypeOK, Instance
<1>3. AtWork(r) = {}
  BY <1>2 DEF KeptInv, OnceInv, Begun, AtWork
<1>4. CASE kind # "leave"
  <2>1. UNCHANGED call
    BY <1>4 DEF CreateAndSubmit
  <2> QED BY <1>1, <1>2, <1>3, <2>1, KeptInReview DEF Local
<1>5. CASE kind = "leave"
  <2>1. Occupy(c, r, "staging", Null)
    BY <1>5 DEF CreateAndSubmit
  <2>2. "staging" \in Places
    BY DEF Places, Domain
  <2>3. /\ Only(c)
        /\ call[c] = Null
        /\ call'[c] # Null
        /\ call'[c].at = "staging"
        /\ call'[c].on = r
        /\ call'[c].id = Null
    BY <1>1, <2>1, <2>2, KeptBegins
  <2>4. Null \in Mine(r)
    BY DEF Mine
  <2> QED BY <1>1, <1>2, <1>3, <1>5, <2>3, <2>4, KeptInReview DEF Local
<1> QED BY <1>4, <1>5

\* ... or from a draft.
LEMMA KeptSubmit ==
    ASSUME KeptInv, OrderInv', OnceInv', NEW c \in Everyone, NEW n \in Submissions, Submit(c, n)
    PROVE  KeptInv' /\ OneRequest
<1>1. TypeOK /\ CallOK
  BY DEF KeptInv, OrderInv, TypeOK, CallOK
<1>2. call[c] # Null /\ call[c] \in Call /\ call[c].at = "submitting"
  BY <1>1 DEF Submit, At, CallOK
<1>3. PICK r \in Requests : call[c].on = r
  BY <1>2 DEF Call
<1>4. /\ inst'[r].status = "in_review"
      /\ inst'[r].kind = inst[r].kind
      /\ inst'[r].entity = inst[r].entity
      /\ inst'[r].staged = inst[r].staged
      /\ \A q \in Requests \ {r} : inst'[q] = inst[q] /\ step'[q] = step[q]
      /\ UNCHANGED row
  BY <1>1, <1>3 DEF Submit, TypeOK, Instance
<1>5. /\ hits[r] \subseteq hits'[r]
      /\ \A q \in Requests \ {r} : hits'[q] = hits[q]
      /\ Stale(c) \subseteq hits'[r]
      /\ inst[r].kind = "leave" => Overlap(c) \subseteq hits'[r]
  BY <1>1, <1>3, HitMoves DEF Submit
<1>6. hits'[r] = {} => inst[r].status = "draft"
  <2>1. call[c].seen = "draft"
    BY <1>2 DEF KeptInv, OrderInv, WorkFits, Fits, Drafting
  <2> QED BY <1>3, <1>5, <2>1 DEF Stale
<1>7. CASE inst[r].kind # "leave"
  <2>1. Only(c) /\ Ends(c)
    BY <1>1, <1>2, <1>3, <1>7, KeptMoves DEF Submit
  <2> QED BY <1>2, <1>3, <1>4, <1>5, <1>6, <2>1, KeptInReview DEF Local, Ends
<1>8. CASE inst[r].kind = "leave"
  <2>1. Only(c) /\ Goes(c, "staging")
    BY <1>1, <1>2, <1>3, <1>8, KeptMoves DEF Submit, Places, Domain
  <2>2. call[c].id \in Mine(r)
    BY <1>2, <1>3, KeptCall
  <2>3. hits'[r] = {} => AtWork(r) \ {c} = {}
    BY <1>3, <1>5, <1>8 DEF Overlap
  <2> QED BY <1>2, <1>3, <1>4, <1>5, <1>6, <1>8, <2>1, <2>2, <2>3, KeptInReview DEF Local, Goes
<1> QED BY <1>7, <1>8

\* Before it stages a leave, a call looks for another one.
LEMMA KeptCheckConflict ==
    ASSUME KeptInv, OrderInv', OnceInv', NEW c \in Everyone, CheckConflict(c)
    PROVE  KeptInv' /\ OneRequest
<1>1. TypeOK /\ CallOK
  BY DEF KeptInv, OrderInv, TypeOK, CallOK
<1>2. call[c] # Null /\ call[c] \in Call /\ call[c].at = "staging"
  BY <1>1 DEF CheckConflict, At, CallOK
<1>3. PICK r \in Requests : call[c].on = r
  BY <1>2 DEF Call
<1>4. UNCHANGED <<inst, step, row, hits>>
  BY DEF CheckConflict, tables
<1>5. Only(c) /\ (Ends(c) \/ Goes(c, "creating"))
  BY <1>1, <1>2, KeptMoves DEF CheckConflict, Places, Domain
<1>6. Local(c, r)
  BY <1>2, <1>3, <1>4, <1>5 DEF Local, Ends, Goes
<1>7. (Mine(r)' = Mine(r)) /\ (Staged(r)' = Staged(r)) /\ (Effects(r)' = Effects(r))
  BY <1>4 DEF Mine, Staged, Effects
<1>8. c \in AtWork(r) /\ c \in Stagers(r)
  BY <1>2, <1>3 DEF AtWork, Stagers, Staging, Domain
<1>9. \/ c \notin AtWork(r)'
      \/ call'[c].at = "creating"
  BY <1>5 DEF Ends, Goes, AtWork, Domain
<1>10. KeptUnlessHit(r) /\ OnceUnlessHit(r)
  BY DEF KeptInv, OnceInv
<1>11. ASSUME hits'[r] = {} PROVE Sound(r)' /\ Tidy(r)'
  <2>1. Once(r) /\ Sound(r) /\ Tidy(r)
    BY <1>4, <1>11, KeptBefore
  <2>2. Sound(r)'
    BY <1>4, <1>6, <1>7, <1>9, <1>10, <1>11, <2>1, SoundStep
       DEF Sound, Granting, Before, After, Undoing
  <2>3. Staged(r) = {} /\ inst[r].kind = "leave"
    BY <1>2, <1>8, <2>1 DEF Tidy, Named
  <2>4. Named(r)'
    BY <1>4, <1>7, <2>3 DEF Named
  <2>5. Unstagers(r)' = Unstagers(r)
    BY <1>2, <1>5 DEF Unstagers, Only, Ends, Goes
  <2>6. Cleared(r)'
    BY <1>4, <1>7, <1>8, <2>1, <2>3, <2>5 DEF Tidy, Cleared, Passed
  <2> QED BY <2>2, <2>4, <2>6 DEF Tidy
<1>12. /\ call[c].id \in Mine(r)
       /\ Null \in Mine(r)
       /\ inst[r].entity \in Mine(r)
       /\ inst[r].staged \in Mine(r)
  BY <1>2, <1>3, KeptCall
<1>13. \/ call'[c] = Null
       \/ Sees(c)' /\ \E q \in Requests : call'[c].on = q /\ call'[c].id \in Mine(q)'
  <2>1. Goes(c, "creating") => Sees(c)'
    BY DEF Goes, Sees, Withdrawing, Reverting, Undoing
  <2> QED BY <1>3, <1>5, <1>7, <1>12, <2>1, EndsEmpty DEF Goes
<1>14. Decides(r)
  BY <1>4 DEF Decides
<1> QED BY <1>4, <1>6, <1>7, <1>11, <1>12, <1>13, <1>14, KeptLocal DEF KeptUnlessHit

\* The leave is in the hands of the call that staged it, ...
LEMMA KeptStageLeave ==
    ASSUME KeptInv, OrderInv', OnceInv', NEW c \in Everyone, StageLeave(c)
    PROVE  KeptInv' /\ OneRequest
<1>1. TypeOK /\ CallOK
  BY DEF KeptInv, OrderInv, TypeOK, CallOK
<1>2. call[c] # Null /\ call[c] \in Call /\ call[c].at = "creating"
  BY <1>1 DEF StageLeave, At, CallOK
<1>3. PICK r \in Requests : call[c].on = r
  BY <1>2 DEF Call
<1>4. UNCHANGED <<inst, step, hits>>
  BY DEF StageLeave
<1>5. PICK id \in Ids : id = NewId /\ row[id].status = "none"
  BY NewIdType DEF StageLeave
<1>6. row' = [row EXCEPT ![id] = [of |-> r, status |-> "pending"]]
  BY <1>3, <1>5 DEF StageLeave
<1>7. /\ Only(c)
      /\ call'[c] # Null
      /\ call'[c].at = "linking"
      /\ call'[c].on = r
      /\ call'[c].id = id
  <2>1. call' = [call EXCEPT ![c].id = id, ![c].at = "linking"]
    BY <1>5 DEF StageLeave
  <2>2. [call[c] EXCEPT !.id = id, !.at = "linking"] \in Call
    BY <1>2 DEF Call, Places, Domain
  <2> QED BY <1>1, <1>2, <1>3, <2>1, <2>2, CallAssumption DEF Only, CallOK, Call
<1>8. /\ row'[id].of = r
      /\ row'[id].status = "pending"
      /\ \A n \in Ids \ {id} : row'[n] = row[n]
  BY <1>1, <1>6 DEF TypeOK
<1>9. Local(c, r)
  BY <1>2, <1>3, <1>4, <1>5, <1>7, <1>8 DEF Local
<1>10. /\ Staged(r)' = Staged(r) \cup {id}
       /\ Effects(r)' = Effects(r)
       /\ id \in Mine(r)'
  BY <1>5, <1>8 DEF Staged, Effects, Mine
<1>11. c \in AtWork(r) /\ c \in Stagers(r) /\ c \in AtWork(r)'
  BY <1>2, <1>3, <1>7 DEF AtWork, Stagers, Staging, Domain
<1>12. KeptUnlessHit(r) /\ OnceUnlessHit(r)
  BY DEF KeptInv, OnceInv
<1>13. ASSUME hits'[r] = {} PROVE Sound(r)' /\ Tidy(r)'
  <2>1. Once(r) /\ Sound(r) /\ Tidy(r)
    BY <1>4, <1>13, KeptBefore
  <2>2. Sound(r)'
    BY <1>4, <1>7, <1>9, <1>10, <1>12, <1>13, <2>1, SoundStep
       DEF Sound, Granting, Before, After, Undoing
  <2>3. Staged(r) = {} /\ inst[r].kind = "leave"
    BY <1>2, <1>11, <2>1 DEF Tidy, Named
  <2>4. AtWork(r)' \subseteq {c}
    BY <1>7, <1>11, <2>1, KeptAlone
  <2>5. c \in Stagers(r)'
    BY <1>7, <1>11 DEF Stagers, Staging
  <2>6. Named(r)'
    BY <1>4, <1>7, <1>10, <2>3, <2>4, <2>5 DEF Named
  <2>7. Unstagers(r)' = Unstagers(r)
    BY <1>2, <1>7 DEF Unstagers, Only
  <2>8. Cleared(r)'
    BY <1>4, <1>11, <2>1, <2>7 DEF Tidy, Cleared, Passed
  <2> QED BY <2>2, <2>6, <2>8 DEF Tidy
<1>14. inst'[r].entity \in Mine(r)' /\ inst'[r].staged \in Mine(r)'
  BY <1>4, <1>9, Elsewhere DEF KeptInv, Owned
<1>15. Sees(c)'
  BY <1>7 DEF Sees, Withdrawing, Reverting, Undoing
<1>16. Decides(r)
  BY <1>4 DEF Decides
<1> QED BY <1>7, <1>9, <1>10, <1>13, <1>14, <1>15, <1>16, KeptLocal DEF KeptUnlessHit

\* ... which then names it.
LEMMA KeptLinkStaged ==
    ASSUME KeptInv, OrderInv', OnceInv', NEW c \in Everyone, LinkStaged(c)
    PROVE  KeptInv' /\ OneRequest
<1>1. TypeOK /\ CallOK
  BY DEF KeptInv, OrderInv, TypeOK, CallOK
<1>2. call[c] # Null /\ call[c] \in Call /\ call[c].at = "linking"
  BY <1>1 DEF LinkStaged, At, CallOK
<1>3. PICK r \in Requests : call[c].on = r
  BY <1>2 DEF Call
<1>4. /\ UNCHANGED <<row, step, hits>>
      /\ \A q \in Requests \ {r} : inst'[q] = inst[q]
      /\ inst'[r].status = inst[r].status
      /\ inst'[r].kind = inst[r].kind
      /\ inst'[r].staged = call[c].id
      /\ inst'[r].entity = inst[r].entity
  BY <1>1, <1>3 DEF LinkStaged, TypeOK, Instance
<1>5. Only(c) /\ Ends(c)
  BY <1>1, <1>2, KeptMoves DEF LinkStaged
<1>6. Local(c, r)
  BY <1>2, <1>3, <1>4, <1>5 DEF Local, Ends
<1>7. (Mine(r)' = Mine(r)) /\ (Staged(r)' = Staged(r)) /\ (Effects(r)' = Effects(r))
  BY <1>4 DEF Mine, Staged, Effects
<1>8. c \in AtWork(r) /\ c \in Stagers(r) /\ c \notin AtWork(r)'
  BY <1>2, <1>3, <1>5 DEF AtWork, Stagers, Staging, Domain, Ends
<1>9. KeptUnlessHit(r) /\ OnceUnlessHit(r)
  BY DEF KeptInv, OnceInv
<1>10. ASSUME hits'[r] = {} PROVE Sound(r)' /\ Tidy(r)'
  <2>1. Once(r) /\ Sound(r) /\ Tidy(r)
    BY <1>4, <1>10, KeptBefore
  <2>2. Sound(r)'
    BY <1>4, <1>6, <1>7, <1>8, <1>9, <1>10, <2>1, SoundStep DEF Sound
  <2>3. Staged(r) \subseteq {call[c].id} /\ inst[r].kind = "leave"
    BY <1>2, <1>8, <2>1 DEF Tidy, Named
  <2>4. AtWork(r)' = {}
    BY <1>5, <1>8, <2>1, KeptAlone
  <2>5. Named(r)'
    BY <1>4, <1>7, <2>3, <2>4 DEF Named
  <2>6. Unstagers(r)' = Unstagers(r)
    BY <1>2, <1>5 DEF Unstagers, Only, Ends
  <2>7. Cleared(r)'
    BY <1>4, <1>7, <1>8, <2>1, <2>6 DEF Tidy, Cleared, Passed
  <2> QED BY <2>2, <2>5, <2>7 DEF Tidy
<1>11. call[c].id \in Mine(r) /\ inst[r].entity \in Mine(r)
  BY <1>2, <1>3, KeptCall
<1>12. \/ call'[c] = Null
       \/ Sees(c)' /\ \E q \in Requests : call'[c].on = q /\ call'[c].id \in Mine(q)'
  BY <1>5, EndsEmpty
<1>13. Decides(r)
  BY <1>4 DEF Decides
<1> QED BY <1>4, <1>6, <1>7, <1>10, <1>11, <1>12, <1>13, KeptLocal DEF KeptUnlessHit

\* A request that is closed or decided without touching its rows.
LEMMA KeptDecided ==
    ASSUME KeptInv, OrderInv', OnceInv', NEW c \in Everyone, NEW r \in Requests, Local(c, r),
           UNCHANGED row,
           inst'[r].kind = inst[r].kind,
           inst'[r].entity = inst[r].entity,
           inst'[r].staged = inst[r].staged,
           c \notin Stagers(r),
           Ends(c) \/ /\ call'[c] # Null
                      /\ call'[c].on = r
                      /\ call'[c].id \in Mine(r)
                      /\ call'[c].at \in {"checking", "unstaging"},
           hits'[r] = {} =>
              /\ inst'[r].status # "approved" => Effects(r) = {}
              /\ inst[r].status = "approved" => inst'[r].status = "approved" \/ c \in AtWork(r)
              /\ inst'[r].status = inst[r].status \/ <<inst[r].status, inst'[r].status>> \in Course
              /\ Stagers(r)' = Stagers(r) => Cleared(r)'
    PROVE  KeptInv' /\ OneRequest
<1>1. (Mine(r)' = Mine(r)) /\ (Staged(r)' = Staged(r)) /\ (Effects(r)' = Effects(r))
  BY DEF Mine, Staged, Effects
<1>2. inst[r].entity \in Mine(r) /\ inst[r].staged \in Mine(r) /\ KeptUnlessHit(r)
      /\ OnceUnlessHit(r)
  BY DEF KeptInv, Owned, OnceInv
<1>3. c \notin AtWork(r)'
  BY DEF AtWork, Ends, Domain
<1>4. ASSUME hits'[r] = {} PROVE Sound(r)' /\ Tidy(r)'
  <2>1. Sound(r) /\ Tidy(r)
    BY <1>4, KeptBefore DEF Local
  <2>2. Sound(r)'
    BY <1>1, <1>2, <1>3, <1>4, SoundStep
  <2>3. Named(r)' /\ Stagers(r)' = Stagers(r)
    BY <1>1, <1>3, <2>1, NamedSame DEF Tidy, Stagers
  <2> QED BY <1>4, <2>2, <2>3 DEF Tidy
<1>5. Decides(r)
  BY DEF Decides
<1>6. \/ call'[c] = Null
      \/ Sees(c)' /\ \E q \in Requests : call'[c].on = q /\ call'[c].id \in Mine(q)'
  <2>1. CASE Ends(c)
    BY <2>1, EndsEmpty
  <2>2. CASE ~Ends(c)
    BY <1>1, <2>2 DEF Sees, Withdrawing, Reverting, Undoing
  <2> QED BY <2>1, <2>2
<1> QED BY <1>1, <1>2, <1>4, <1>5, <1>6, KeptLocal DEF KeptUnlessHit

\* A draft that is discarded has nothing staged.
LEMMA KeptDiscard ==
    ASSUME KeptInv, OrderInv', OnceInv', NEW c \in Everyone, Discard(c)
    PROVE  KeptInv' /\ OneRequest
<1>1. TypeOK /\ CallOK
  BY DEF KeptInv, OrderInv, TypeOK, CallOK
<1>2. call[c] # Null /\ call[c] \in Call /\ call[c].at = "discarding"
  BY <1>1 DEF Discard, At, CallOK
<1>3. PICK r \in Requests : call[c].on = r
  BY <1>2 DEF Call
<1>4. /\ UNCHANGED <<row, step>>
      /\ \A q \in Requests \ {r} : inst'[q] = inst[q]
      /\ inst'[r].status = "cancelled"
      /\ inst'[r].kind = inst[r].kind
      /\ inst'[r].staged = inst[r].staged
      /\ inst'[r].entity = inst[r].entity
  BY <1>1, <1>3 DEF Discard, TypeOK, Instance
<1>5. /\ hits[r] \subseteq hits'[r]
      /\ \A q \in Requests \ {r} : hits'[q] = hits[q]
      /\ Stale(c) \subseteq hits'[r]
  BY <1>1, <1>3, HitMoves DEF Discard
<1>6. Only(c) /\ Ends(c)
  BY <1>1, <1>2, KeptMoves DEF Discard
<1>7. Local(c, r) /\ c \notin Stagers(r)
  BY <1>2, <1>3, <1>4, <1>5, <1>6 DEF Local, Ends, Stagers, Staging
<1>8. ASSUME hits'[r] = {}
      PROVE  /\ inst[r].status = "draft"
             /\ Effects(r) = {}
             /\ Stagers(r)' = Stagers(r) => Cleared(r)'
  <2>1. call[c].seen = "draft"
    BY <1>2 DEF KeptInv, OrderInv, WorkFits, Fits, Drafting
  <2>2. inst[r].status = "draft"
    BY <1>3, <1>5, <1>8, <2>1 DEF Stale
  <2>3. Sound(r) /\ Tidy(r)
    BY <1>5, <1>8, KeptBefore
  <2>4. Staged(r)' = Staged(r)
    BY <1>4 DEF Staged
  <2> QED BY <1>4, <2>2, <2>3, <2>4 DEF Sound, Tidy, Cleared
<1> QED BY <1>4, <1>6, <1>7, <1>8, KeptDecided DEF Course

\* What is cancelled was undone before; an approved request has no step left to cancel.
LEMMA KeptCancel ==
    ASSUME KeptInv, OrderInv', OnceInv', NEW c \in Everyone, Cancel(c)
    PROVE  KeptInv' /\ OneRequest
<1>1. TypeOK /\ CallOK
  BY DEF KeptInv, OrderInv, TypeOK, CallOK
<1>2. call[c] # Null /\ call[c] \in Call /\ call[c].at = "cancelling"
  BY <1>1 DEF Cancel, At, CallOK
<1>3. PICK r \in Requests : call[c].on = r
  BY <1>2 DEF Call
<1>4. /\ UNCHANGED row
      /\ \A q \in Requests \ {r} : inst'[q] = inst[q] /\ step'[q] = step[q]
      /\ inst'[r].status = "cancelled"
      /\ inst'[r].kind = inst[r].kind
      /\ inst'[r].staged = inst[r].staged
      /\ inst'[r].entity = inst[r].entity
      /\ \A s \in Steps : step'[r][s] = IF step[r][s] = "pending" THEN "cancelled"
                                                                   ELSE step[r][s]
  BY <1>1, <1>3 DEF Cancel, TypeOK, Instance
<1>5. /\ hits[r] \subseteq hits'[r]
      /\ \A q \in Requests \ {r} : hits'[q] = hits[q]
      /\ Stale(c) \subseteq hits'[r]
  BY <1>1, <1>3, HitMoves DEF Cancel
<1>6. Only(c) /\ Ends(c)
  BY <1>1, <1>2, KeptMoves DEF Cancel
<1>7. Local(c, r) /\ c \notin Stagers(r)
  BY <1>2, <1>3, <1>4, <1>5, <1>6 DEF Local, Ends, Stagers, Staging
<1>8. c \in AtWork(r)
  BY <1>2, <1>3 DEF AtWork, Domain
<1>9. ASSUME hits'[r] = {}
      PROVE  /\ inst[r].status \in {"draft", "in_review", "approved"}
             /\ Effects(r) = {}
             /\ Stagers(r)' = Stagers(r) => Cleared(r)'
  <2>1. inst[r].status = call[c].seen
    BY <1>3, <1>5, <1>9 DEF Stale
  <2>2. Once(r) /\ Sound(r) /\ Tidy(r)
    BY <1>5, <1>9, KeptBefore
  <2>3. Effects(r) = {}
    BY <1>2, <1>8, <2>2 DEF Sound
  <2>4. Stagers(r) = {}
    BY <1>2, <1>8, <2>2, KeptAlone DEF Stagers, Staging
  <2>5. Staged(r) = {} \/ Passed(r)
    BY <1>2, <1>8, <2>1, <2>2 DEF Tidy, Named, Cleared
  <2>6. (Staged(r)' = Staged(r)) /\ (Passed(r) => Passed(r)')
    BY <1>4 DEF Staged, Passed
  <2>7. Stagers(r)' = Stagers(r) => Cleared(r)'
    BY <1>4, <2>4, <2>5, <2>6 DEF Cleared
  <2>8. call[c].seen \in {"draft", "in_review", "approved"}
    BY <1>2 DEF KeptInv, WorkSees, Sees, Withdrawing
  <2> QED BY <2>1, <2>3, <2>7, <2>8
<1> QED BY <1>4, <1>6, <1>7, <1>8, <1>9, KeptDecided DEF Course

\* The last approval leaves no step to decide.
LEMMA KeptApprove ==
    ASSUME KeptInv, OrderInv', OnceInv', NEW c \in Everyone, Approve(c)
    PROVE  KeptInv' /\ OneRequest
<1>1. TypeOK /\ CallOK
  BY DEF KeptInv, OrderInv, TypeOK, CallOK
<1>2. call[c] # Null /\ call[c] \in Call /\ call[c].at = "approving"
  BY <1>1 DEF Approve, At, CallOK
<1>3. PICK r \in Requests : call[c].on = r
  BY <1>2 DEF Call
<1>4. PICK s \in Steps : call[c].step = s
  BY <1>2 DEF KeptInv, OrderInv, WorkFits, Fits, Deciding
<1> DEFINE next == {t \in Pending(r) \ {s} : t[2] > s[2]}
<1>5. /\ UNCHANGED row
      /\ \A q \in Requests \ {r} : inst'[q] = inst[q] /\ step'[q] = step[q]
      /\ inst'[r].status = IF next = {} THEN "approved" ELSE inst[r].status
      /\ inst'[r].kind = inst[r].kind
      /\ inst'[r].staged = inst[r].staged
      /\ inst'[r].entity = inst[r].entity
      /\ step'[r][s] = "approved"
      /\ \A t \in Steps \ {s} : step'[r][t] = step[r][t]
  BY <1>1, <1>3, <1>4 DEF Approve, TypeOK, Instance
<1>6. /\ hits[r] \subseteq hits'[r]
      /\ \A q \in Requests \ {r} : hits'[q] = hits[q]
      /\ Stale(c) \subseteq hits'[r]
  BY <1>1, <1>3, HitMoves DEF Approve
<1>7. Only(c) /\ Ends(c)
  BY <1>1, <1>2, KeptMoves DEF Approve, Places, Ends
<1>8. Local(c, r) /\ c \notin Stagers(r)
  BY <1>2, <1>3, <1>5, <1>6, <1>7 DEF Local, Ends, Stagers, Staging
<1>9. ASSUME hits'[r] = {}
      PROVE  /\ inst[r].status = "in_review"
             /\ Effects(r) = {}
             /\ Stagers(r)' = Stagers(r) => Cleared(r)'
  <2>1. call[c].seen = "in_review"
    BY <1>2 DEF KeptInv, OrderInv, WorkFits, Fits, Deciding
  <2>2. inst[r].status = "in_review"
    BY <1>3, <1>6, <1>9, <2>1 DEF Stale
  <2>3. Sound(r) /\ Orderly(r)
    BY <1>6, <1>9, KeptBefore
  <2>4. PICK n \in Submissions : Round(r, n)
    BY <2>2, <2>3 DEF Orderly
  <2>5. ASSUME next = {} PROVE Passed(r)'
    <3>1. ASSUME NEW t \in Steps, t # s PROVE step[r][t] \in {"none", "approved"}
      <4>1. CASE t[1] # n
        BY <2>4, <4>1 DEF Round
      <4>2. CASE t[1] = n
        <5>1. s[1] = n
          BY <1>2, <1>3, <1>4, <2>4 DEF Round, Deciding
        <5>2. PICK o \in Orders, p \in Orders : t = <<n, o>> /\ s = <<n, p>>
          <6>1. \A u \in Steps : \E m \in Submissions, o \in Orders : u = <<m, o>>
            BY DEF Steps
          <6>2. PICK m \in Submissions, o \in Orders : t = <<m, o>>
            BY <3>1, <6>1
          <6>3. PICK k \in Submissions, p \in Orders : s = <<k, p>>
            BY <6>1
          <6> QED BY <4>2, <5>1, <6>2, <6>3
        <5>3. o \in Nat /\ p \in Nat
          BY <5>2, RequestAssumption
        <5>4. CASE o < p
          BY <1>2, <1>3, <1>4, <2>4, <5>2, <5>4 DEF Round, Deciding
        <5>5. CASE o > p
          <6>1. step[r][t] # "pending"
            BY <2>5, <3>1, <5>2, <5>5 DEF Pending
          <6> QED BY <2>4, <4>2, <6>1 DEF Round
        <5> QED BY <3>1, <5>2, <5>3, <5>4, <5>5
      <4> QED BY <4>1, <4>2
    <3> QED BY <1>5, <3>1 DEF Passed
  <2>6. Cleared(r)'
    BY <1>5, <2>2, <2>5 DEF Cleared
  <2> QED BY <2>2, <2>3, <2>6 DEF Sound
<1> HIDE DEF next
<1> QED BY <1>5, <1>7, <1>8, <1>9, KeptDecided DEF Course

\* A rejected request has a call that rejects what was staged for it, ...
LEMMA KeptReject ==
    ASSUME KeptInv, OrderInv', OnceInv', NEW c \in Everyone, Reject(c)
    PROVE  KeptInv' /\ OneRequest
<1>1. TypeOK /\ CallOK
  BY DEF KeptInv, OrderInv, TypeOK, CallOK
<1>2. call[c] # Null /\ call[c] \in Call /\ call[c].at = "rejecting"
  BY <1>1 DEF Reject, At, CallOK
<1>3. PICK r \in Requests : call[c].on = r
  BY <1>2 DEF Call
<1>4. /\ UNCHANGED row
      /\ \A q \in Requests \ {r} : inst'[q] = inst[q] /\ step'[q] = step[q]
      /\ inst'[r].status = "rejected"
      /\ inst'[r].kind = inst[r].kind
      /\ inst'[r].staged = inst[r].staged
      /\ inst'[r].entity = inst[r].entity
  BY <1>1, <1>3 DEF Reject, TypeOK, Instance
<1>5. /\ hits[r] \subseteq hits'[r]
      /\ \A q \in Requests \ {r} : hits'[q] = hits[q]
      /\ Stale(c) \subseteq hits'[r]
  BY <1>1, <1>3, HitMoves DEF Reject
<1>6. /\ Only(c)
      /\ call'[c] # Null
      /\ call'[c].at = "unstaging"
      /\ call'[c].on = r
      /\ call'[c].id = Null
  BY <1>1, <1>2, <1>3, KeptMoves DEF Reject, Places
<1>7. Local(c, r) /\ c \notin Stagers(r) /\ Null \in Mine(r)
  BY <1>2, <1>3, <1>4, <1>5, <1>6 DEF Local, Stagers, Staging, Mine
<1>8. ASSUME hits'[r] = {}
      PROVE  /\ inst[r].status = "in_review"
             /\ Effects(r) = {}
             /\ Cleared(r)'
  <2>1. call[c].seen = "in_review"
    BY <1>2 DEF KeptInv, OrderInv, WorkFits, Fits, Deciding
  <2>2. inst[r].status = "in_review"
    BY <1>3, <1>5, <1>8, <2>1 DEF Stale
  <2>3. Sound(r)
    BY <1>5, <1>8, KeptBefore
  <2>4. c \in Unstagers(r)'
    BY <1>6 DEF Unstagers
  <2> QED BY <1>4, <2>2, <2>3, <2>4 DEF Sound, Cleared
<1> QED BY <1>4, <1>6, <1>7, <1>8, KeptDecided DEF Course

\* ... which rejects it, unless the request is no longer rejected.
LEMMA KeptUnstage ==
    ASSUME KeptInv, OrderInv', OnceInv', NEW c \in Everyone, Unstage(c)
    PROVE  KeptInv' /\ OneRequest
<1>1. TypeOK /\ CallOK /\ TablesOK
  BY TypeParts DEF KeptInv, OrderInv, TypeOK, CallOK
<1>2. call[c] # Null /\ call[c] \in Call /\ call[c].at = "unstaging"
  BY <1>1 DEF Unstage, At, CallOK
<1>3. PICK r \in Requests : call[c].on = r
  BY <1>2 DEF Call
<1>4. /\ UNCHANGED <<inst, step>>
      /\ row' = IF inst[r].status = "rejected" THEN RejectedStaged(r) ELSE row
  BY <1>3 DEF Unstage
<1>5. /\ hits[r] \subseteq hits'[r]
      /\ \A q \in Requests \ {r} : hits'[q] = hits[q]
      /\ Overlap(c) \subseteq hits'[r]
  BY <1>1, <1>3, HitMoves DEF Unstage
<1>6. Only(c) /\ Ends(c)
  BY <1>1, <1>2, KeptMoves DEF Unstage
<1>7. inst[r].staged \in Mine(r) /\ inst[r].entity \in Mine(r)
  BY <1>2, <1>3, KeptCall
<1>8. /\ \A id \in Ids :
            \/ row'[id] = row[id]
            \/ /\ row[id].of = r /\ row'[id].of = r /\ row[id].status = "pending"
               /\ row'[id].status = "rejected"
      /\ row' = RejectedStaged(r) => Staged(r)' \subseteq
            Staged(r) \ (IF inst[r].kind = "leave" THEN {inst[r].staged} ELSE {})
  BY <1>1, <1>4, <1>7, StagedWithdrawn
<1>9. Local(c, r) /\ c \notin AtWork(r) /\ c \notin AtWork(r)'
  BY <1>2, <1>3, <1>4, <1>5, <1>6, <1>8 DEF Local, Ends, AtWork, Domain
<1>10. Effects(r)' = Effects(r) /\ Staged(r)' \subseteq Staged(r)
  BY <1>8 DEF Effects, Staged
<1>11. KeptUnlessHit(r) /\ OnceUnlessHit(r)
  BY DEF KeptInv, OnceInv
<1>12. ASSUME hits'[r] = {} PROVE Sound(r)' /\ Tidy(r)'
  <2>1. Sound(r) /\ Tidy(r)
    BY <1>5, <1>12, KeptBefore
  <2>2. Sound(r)'
    BY <1>4, <1>9, <1>10, <1>11, <1>12, <2>1, SoundStep DEF Sound
  <2>3. Named(r)' /\ Stagers(r)' = Stagers(r)
    BY <1>4, <1>9, <1>10, <2>1, NamedSame DEF Tidy, Stagers
  <2>4. AtWork(r) = {}
    BY <1>3, <1>5, <1>9, <1>12 DEF Overlap
  <2>5. inst[r].status = "rejected" => Staged(r)' = {}
    <3>1. Staged(r) \subseteq {inst[r].staged} /\ (Staged(r) # {} => inst[r].kind = "leave")
      BY <2>1, <2>4 DEF Tidy, Named, Stagers
    <3> QED BY <1>4, <1>8, <3>1
  <2>6. Cleared(r)'
    BY <1>4, <1>10, <2>1, <2>3, <2>4, <2>5 DEF Tidy, Cleared, Passed, Stagers
  <2> QED BY <2>2, <2>3, <2>6 DEF Tidy
<1>13. Decides(r)
  BY <1>4 DEF Decides
<1> QED BY <1>4, <1>6, <1>7, <1>9, <1>12, <1>13, EndsEmpty, Elsewhere, KeptLocal DEF KeptUnlessHit

\* Cancelling a request that was not approved rejects what was staged for it.
LEMMA KeptUndoStaged ==
    ASSUME KeptInv, OrderInv', OnceInv', NEW c \in Everyone, UndoStaged(c)
    PROVE  KeptInv' /\ OneRequest
<1>1. TypeOK /\ CallOK /\ TablesOK
  BY TypeParts DEF KeptInv, OrderInv, TypeOK, CallOK
<1>2. call[c] # Null /\ call[c] \in Call /\ call[c].at = "undoing"
  BY <1>1 DEF UndoStaged, At, CallOK
<1>3. PICK r \in Requests : call[c].on = r
  BY <1>2 DEF Call
<1>4. /\ UNCHANGED <<inst, step, hits>>
      /\ row' = RejectedStaged(r)
      /\ inst[r].status # "approved"
  BY <1>3 DEF UndoStaged
<1>5. Only(c) /\ Goes(c, "cancelling")
  BY <1>1, <1>2, KeptMoves DEF UndoStaged, Places, Domain
<1>6. /\ inst[r].staged \in Mine(r)
      /\ inst[r].entity \in Mine(r)
      /\ call[c].id \in Mine(r)
      /\ Sees(c)
  BY <1>2, <1>3, KeptCall
<1>7. /\ \A id \in Ids :
            \/ row'[id] = row[id]
            \/ /\ row[id].of = r /\ row'[id].of = r /\ row[id].status = "pending"
               /\ row'[id].status = "rejected"
      /\ Staged(r)' \subseteq
            Staged(r) \ (IF inst[r].kind = "leave" THEN {inst[r].staged} ELSE {})
  BY <1>1, <1>4, <1>6, StagedWithdrawn
<1>8. Effects(r)' = Effects(r) /\ Staged(r)' \subseteq Staged(r) /\ Mine(r)' = Mine(r)
  BY <1>7 DEF Effects, Staged, Mine
<1>9. c \notin Stagers(r) /\ c \notin Unstagers(r) /\ c \in AtWork(r)
  BY <1>2, <1>3 DEF Stagers, Staging, Unstagers, AtWork, Domain
<1>10. hits'[r] = {} => Effects(r)' = {} /\ Staged(r)' = {}
  <2> SUFFICES ASSUME hits'[r] = {} PROVE Effects(r)' = {} /\ Staged(r)' = {}
    OBVIOUS
  <2>1. Once(r) /\ Sound(r) /\ Tidy(r)
    BY <1>4, KeptBefore
  <2>2. Stagers(r) = {}
    BY <1>9, <2>1, KeptAlone DEF Stagers
  <2>3. Staged(r) \subseteq {inst[r].staged} /\ (Staged(r) # {} => inst[r].kind = "leave")
    BY <2>1, <2>2 DEF Tidy, Named
  <2> QED BY <1>4, <1>7, <1>8, <2>1, <2>3 DEF Sound
<1>11. Sees(c)'
  BY <1>2, <1>5, <1>6 DEF Sees, Goes, Withdrawing, Reverting, Undoing
<1> QED BY <1>2, <1>3, <1>4, <1>5, <1>6, <1>7, <1>8, <1>9, <1>10, <1>11, KeptSame
     DEF Goes, Staging, Granting, Before, After, Undoing

\* Cancelling an approved one starts from the effect it names.
LEMMA KeptUndoApproved ==
    ASSUME KeptInv, OrderInv', OnceInv', NEW c \in Everyone, UndoApproved(c)
    PROVE  KeptInv' /\ OneRequest
<1>1. TypeOK /\ CallOK
  BY DEF KeptInv, OrderInv, TypeOK, CallOK
<1>2. call[c] # Null /\ call[c] \in Call /\ call[c].at = "undoing"
  BY <1>1 DEF UndoApproved, At, CallOK
<1>3. PICK r \in Requests : call[c].on = r
  BY <1>2 DEF Call
<1>4. UNCHANGED <<inst, step, row, hits>> /\ inst[r].status = "approved"
  BY <1>3 DEF UndoApproved, tables
<1>5. inst[r].entity \in Mine(r)
  BY <1>2, <1>3, KeptCall
<1>6. CASE Finish(c)
  <2>1. Only(c) /\ Ends(c)
    BY <1>1, <1>2, <1>6, KeptMoves
  <2> QED BY <1>2, <1>3, <1>4, <1>5, <2>1, KeptStill DEF Staging
<1>7. CASE ~Finish(c)
  <2> DEFINE id == inst[r].entity
  <2> DEFINE at == IF ~Integrated(r) THEN "cancelling"
                   ELSE IF row[id].status # "approved" THEN "unlinking"
                   ELSE IF inst[r].kind = "leave" THEN "freeing" ELSE "erasing"
  <2>1. call' = [call EXCEPT ![c].seen = "approved", ![c].id = id, ![c].at = at]
    BY <1>3, <1>7 DEF UndoApproved
  <2>2. /\ at \in {"cancelling", "unlinking", "freeing", "erasing"}
        /\ at = "cancelling" => ~Integrated(r)
    OBVIOUS
  <2>3. id \in Ids \cup {Null}
    BY <1>1 DEF TypeOK, Instance
  <2> HIDE DEF id, at
  <2>4. [call[c] EXCEPT !.seen = "approved", !.id = id, !.at = at] \in Call
    BY <1>2, <2>2, <2>3 DEF Call, Status, Places, Domain
  <2>5. /\ Only(c)
        /\ call'[c] # Null
        /\ call'[c].at = at
        /\ call'[c].on = r
        /\ call'[c].id = id
        /\ call'[c].seen = "approved"
    <3>1. call'[c] = [call[c] EXCEPT !.seen = "approved", !.id = id, !.at = at] /\ Only(c)
      BY <1>1, <2>1 DEF Only, CallOK
    <3> QED BY <1>2, <1>3, <2>4, <3>1, CallAssumption DEF Call
  <2>6. hits'[r] = {} /\ at = "cancelling" => Effects(r) = {}
    <3> SUFFICES ASSUME hits'[r] = {}, ~Integrated(r) PROVE Effects(r) = {}
      BY <2>2
    <3>1. Once(r)
      BY <1>4, KeptBefore
    <3>2. c \in AtWork(r)
      BY <1>2, <1>3 DEF AtWork, Domain
    <3>3. \A d \in AtWork(r) : call[d].at \notin After
      BY <1>2, <3>1, <3>2, KeptAlone DEF After
    <3> QED BY <3>1, <3>3 DEF Once, Known
  <2>7. Sees(c)'
    BY <2>5 DEF Sees
  <2>8. id \in Mine(r)
    BY <1>5 DEF id
  <2> QED BY <1>2, <1>3, <1>4, <1>5, <2>2, <2>5, <2>6, <2>7, <2>8, KeptStill DEF Staging
<1> QED BY <1>6, <1>7

\* The effect is taken back, ...
LEMMA KeptErase ==
    ASSUME KeptInv, OrderInv', OnceInv', NEW c \in Everyone, Erase(c)
    PROVE  KeptInv' /\ OneRequest
<1>1. TypeOK /\ CallOK
  BY DEF KeptInv, OrderInv, TypeOK, CallOK
<1>2. call[c] # Null /\ call[c] \in Call /\ call[c].at = "erasing"
  BY <1>1 DEF Erase, At, CallOK
<1>3. PICK r \in Requests : call[c].on = r
  BY <1>2 DEF Call
<1>4. UNCHANGED <<inst, step, hits>>
  BY DEF Erase
<1>5. Only(c) /\ Goes(c, "unlinking")
  BY <1>1, <1>2, KeptMoves DEF Erase, Places, Domain
<1>6. /\ inst[r].entity \in Mine(r)
      /\ call[c].id \in Mine(r)
      /\ Sees(c)
      /\ hits[r] = {} => inst[r].status = "approved"
  BY <1>2, <1>3, KeptCall DEF Granting, Undoing
<1>7. \A id \in Ids :
         \/ row'[id] = row[id]
         \/ /\ row[id].of = r /\ row'[id].of = r
            /\ row[id].status # "none" /\ row'[id].status \in {"returned", "rejected"}
  <2>1. \A id \in Ids \ {call[c].id} : row'[id] = row[id]
    BY <1>1 DEF Erase, TypeOK
  <2>2. CASE call[c].id = Null
    BY <2>1, <2>2, Constants
  <2>3. CASE call[c].id # Null
    <3>1. call[c].id \in Ids /\ row[call[c].id].of = r /\ row[call[c].id].status # "none"
      BY <1>6, <2>3 DEF Mine
    <3>2. row[call[c].id] \in Entity
      BY <1>1, <3>1 DEF TypeOK
    <3>3. /\ row'[call[c].id].of = r
          /\ row'[call[c].id].status \in {"returned", "rejected"}
      BY <1>1, <3>1, <3>2 DEF Erase, TypeOK, Entity
    <3> QED BY <2>1, <3>1, <3>3
  <2> QED BY <2>2, <2>3
<1>8. /\ Effects(r)' \subseteq Effects(r)
      /\ Staged(r)' \subseteq Staged(r)
      /\ Mine(r) \subseteq Mine(r)'
  BY <1>7 DEF Effects, Staged, Mine
<1>9. c \notin Stagers(r) /\ c \notin Unstagers(r)
  BY <1>2, <1>3 DEF Stagers, Staging, Unstagers
<1>10. Sees(c)'
  BY <1>2, <1>5, <1>6 DEF Sees, Goes, Withdrawing, Reverting, Undoing
<1> QED BY <1>2, <1>3, <1>4, <1>5, <1>6, <1>7, <1>8, <1>9, <1>10, KeptSame DEF Goes, Staging

\* ... or made, by a call that found the request approved.
LEMMA KeptWrite ==
    ASSUME KeptInv, OrderInv', OnceInv', NEW c \in Everyone, Write(c)
    PROVE  KeptInv' /\ OneRequest
<1>1. TypeOK /\ CallOK
  BY DEF KeptInv, OrderInv, TypeOK, CallOK
<1>2. call[c] # Null /\ call[c] \in Call /\ call[c].at = "writing"
  BY <1>1 DEF Write, At, CallOK
<1>3. PICK r \in Requests : call[c].on = r
  BY <1>2 DEF Call
<1> DEFINE id == IF call[c].id # Null THEN call[c].id ELSE NewId
<1> DEFINE at == IF inst[r].kind = "leave" THEN "consuming" ELSE "marking"
<1>4. UNCHANGED <<inst, step, hits>>
  BY DEF Write
<1>5. call' = [call EXCEPT ![c].id = id, ![c].at = at]
  BY <1>3 DEF Write
<1>6. row' = [row EXCEPT ![id] = [of |-> r, status |-> "approved"]]
  BY <1>3 DEF Write
<1>7. /\ inst[r].entity \in Mine(r)
      /\ call[c].id \in Mine(r)
      /\ hits[r] = {} => inst[r].status = "approved"
  BY <1>2, <1>3, KeptCall DEF Granting, Before
<1>8. id \in Ids /\ (row[id].of = r \/ row[id].status = "none")
  BY <1>7, NewIdType DEF Write, Mine
<1>9. at \in {"consuming", "marking"}
  OBVIOUS
<1> HIDE DEF id, at
<1>10. /\ row'[id].of = r
       /\ row'[id].status = "approved"
       /\ \A n \in Ids \ {id} : row'[n] = row[n]
  BY <1>1, <1>6, <1>8 DEF TypeOK
<1>11. [call[c] EXCEPT !.id = id, !.at = at] \in Call
  BY <1>2, <1>8, <1>9 DEF Call, Places, Domain
<1>12. /\ Only(c)
       /\ call'[c] # Null
       /\ call'[c].at = at
       /\ call'[c].on = r
       /\ call'[c].id = id
  <2>1. call'[c] = [call[c] EXCEPT !.id = id, !.at = at] /\ Only(c)
    BY <1>1, <1>5 DEF Only, CallOK
  <2> QED BY <1>2, <1>3, <1>11, <2>1, CallAssumption DEF Call
<1>13. Staged(r)' \subseteq Staged(r) /\ id \in Mine(r)' /\ Mine(r) \subseteq Mine(r)'
  BY <1>8, <1>10 DEF Staged, Mine
<1>14. c \in AtWork(r) /\ c \notin Stagers(r) /\ c \notin Unstagers(r)
  BY <1>2, <1>3 DEF AtWork, Domain, Stagers, Staging, Unstagers
<1>15. Sees(c)'
  BY <1>9, <1>12 DEF Sees, Withdrawing, Reverting, Undoing
<1> QED BY <1>2, <1>3, <1>4, <1>7, <1>8, <1>9, <1>10, <1>12, <1>13, <1>14, <1>15, KeptSame
     DEF Staging

\* So is the overtime record that is found instead.
LEMMA KeptFind ==
    ASSUME KeptInv, OrderInv', OnceInv', NEW c \in Everyone, FindOvertime(c)
    PROVE  KeptInv' /\ OneRequest
<1>1. TypeOK /\ CallOK
  BY DEF KeptInv, OrderInv, TypeOK, CallOK
<1>2. call[c] # Null /\ call[c] \in Call /\ call[c].at = "finding"
  BY <1>1 DEF FindOvertime, At, CallOK
<1>3. PICK r \in Requests : call[c].on = r
  BY <1>2 DEF Call
<1>4. UNCHANGED <<inst, step, hits>>
  BY DEF FindOvertime
<1>5. CASE Live(r) = {}
  <2>1. Only(c) /\ Goes(c, "writing") /\ UNCHANGED row
    BY <1>1, <1>2, <1>3, <1>5, KeptMoves DEF FindOvertime, Places, Domain
  <2>2. Sees(c)'
    BY <2>1 DEF Goes, Sees, Withdrawing, Reverting, Undoing
  <2> QED BY <1>2, <1>3, <1>4, <2>1, <2>2, KeptCall, KeptStill DEF Goes, Staging, Granting, Before
<1>6. CASE Live(r) # {}
  <2>1. PICK id \in Live(r) :
           /\ row' = [row EXCEPT ![id].status = "approved"]
           /\ call' = [call EXCEPT ![c].id = id, ![c].at = "marking"]
    BY <1>3, <1>6 DEF FindOvertime
  <2>2. id \in Ids /\ row[id].of = r /\ row[id].status # "none"
    BY DEF Live
  <2>3. /\ row'[id].of = r
        /\ row'[id].status = "approved"
        /\ \A n \in Ids \ {id} : row'[n] = row[n]
    BY <1>1, <2>1, <2>2 DEF TypeOK, Entity
  <2>4. [call[c] EXCEPT !.id = id, !.at = "marking"] \in Call
    BY <1>2, <2>2 DEF Call, Places, Domain
  <2>5. /\ Only(c)
        /\ call'[c] # Null
        /\ call'[c].at = "marking"
        /\ call'[c].on = r
        /\ call'[c].id = id
    <3>1. call'[c] = [call[c] EXCEPT !.id = id, !.at = "marking"] /\ Only(c)
      BY <1>1, <2>1 DEF Only, CallOK
    <3> QED BY <1>2, <1>3, <2>4, <3>1, CallAssumption DEF Call
  <2>6. Staged(r)' \subseteq Staged(r) /\ id \in Mine(r)' /\ Mine(r) \subseteq Mine(r)'
    BY <2>2, <2>3 DEF Staged, Mine
  <2>7. c \in AtWork(r) /\ c \notin Stagers(r) /\ c \notin Unstagers(r)
    BY <1>2, <1>3 DEF AtWork, Domain, Stagers, Staging, Unstagers
  <2>8. Sees(c)'
    BY <2>5 DEF Sees, Withdrawing, Reverting, Undoing
  <2>9. inst[r].entity \in Mine(r) /\ (hits[r] = {} => inst[r].status = "approved")
    BY <1>2, <1>3, KeptCall DEF Granting, Before
  <2> QED BY <1>2, <1>3, <1>4, <2>2, <2>3, <2>5, <2>6, <2>7, <2>8, <2>9, KeptSame DEF Staging
<1> QED BY <1>5, <1>6

\* A call that stops is remembered when it had something left to write; otherwise
\* nothing is staged that only this call knew.
LEMMA KeptStops ==
    ASSUME KeptInv, OrderInv', OnceInv', NEW c \in Everyone, NEW r \in Requests,
           call[c] # Null, call[c].on = r, Only(c), Ends(c), UNCHANGED <<inst, row, step>>,
           NEW what, Hit(r, what), Unfinished(c) => what # {}
    PROVE  KeptInv' /\ OneRequest
<1>1. /\ hits[r] \subseteq hits'[r]
      /\ what \subseteq hits'[r]
      /\ \A q \in Requests \ {r} : hits'[q] = hits[q]
  BY HitMoves DEF KeptInv, OrderInv
<1>2. (Mine(r)' = Mine(r)) /\ (Staged(r)' = Staged(r)) /\ (Effects(r)' = Effects(r))
  BY DEF Mine, Staged, Effects
<1>3. inst[r].entity \in Mine(r) /\ inst[r].staged \in Mine(r)
  BY KeptCall
<1>4. CASE hits'[r] # {} \/ c \notin Stagers(r) \cup Unstagers(r)
  BY <1>1, <1>2, <1>3, <1>4, KeptSame
<1>5. CASE hits'[r] = {} /\ c \in Stagers(r) \cup Unstagers(r)
  <2>1. Local(c, r) /\ c \notin AtWork(r)'
    BY <1>1 DEF Local, Ends, AtWork, Domain
  <2>2. hits[r] = {} /\ ~Unfinished(c)
    BY <1>1, <1>5
  <2>3. OnceUnlessHit(r) /\ KeptUnlessHit(r)
    BY DEF KeptInv, OnceInv
  <2>4. Sound(r) /\ Tidy(r)
    BY <2>2, <2>3 DEF KeptUnlessHit
  <2>5. Sound(r)'
    BY <1>2, <1>5, <2>1, <2>3, <2>4, SoundStep DEF Sound
  <2>6. Stagers(r)' \subseteq Stagers(r) \ {c} /\ Unstagers(r) \ {c} \subseteq Unstagers(r)'
    BY <2>1 DEF Stagers, Unstagers, AtWork, Only
  <2>7. ASSUME c \in Stagers(r) PROVE Tidy(r)'
    <3>1. call[c].at \in {"staging", "creating"} /\ c \in AtWork(r) /\ c \notin Unstagers(r)
      BY <2>2, <2>7 DEF Stagers, Staging, Unstagers, Unfinished
    <3>2. Staged(r) = {} /\ inst[r].kind = "leave"
      BY <2>4, <2>7, <3>1 DEF Tidy, Named
    <3> QED BY <1>2, <2>4, <2>6, <2>7, <3>1, <3>2 DEF Tidy, Cleared, Passed, Named
  <2>8. ASSUME c \in Unstagers(r) PROVE Tidy(r)'
    <3>1. inst[r].kind # "leave"
      BY <2>2, <2>8 DEF Unstagers, Unfinished
    <3>2. Staged(r) = {} /\ Stagers(r) = {}
      BY <2>4, <3>1 DEF Tidy, Named
    <3> QED BY <1>2, <2>4, <2>6, <3>2 DEF Tidy, Cleared, Passed, Named
  <2>9. Tidy(r)'
    BY <1>5, <2>7, <2>8
  <2>10. Decides(r)
    BY DEF Decides
  <2> QED BY <1>2, <1>3, <2>1, <2>5, <2>9, <2>10, EndsEmpty, KeptLocal DEF KeptUnlessHit
<1> QED BY <1>4, <1>5

\* Every step keeps the invariant, and is the business of one request: one action at
\* a time.
LEMMA KeptStep == KeptInv /\ [Next]_vars => KeptInv' /\ OneRequest
<1> SUFFICES ASSUME KeptInv, [Next]_vars
             PROVE  KeptInv' /\ OneRequest
  OBVIOUS
<1> OrderInv' /\ OnceInv' /\ TypeOK /\ TypeOK' /\ CallOK
  BY OrderStep, OnceStep DEF KeptInv, OrderInv, TypeOK, CallOK
<1>1. ASSUME NEW r \in Requests, NEW kind \in Kinds, CreateDraft(r, kind)
      PROVE  KeptInv' /\ OneRequest
  BY <1>1, KeptDraft
<1>2. ASSUME NEW c \in Callers, NEW r \in Requests, NEW kind \in Kinds, NEW n \in Submissions,
             CreateAndSubmit(c, r, kind, n)
      PROVE  KeptInv' /\ OneRequest
  BY <1>2, KeptCreateAndSubmit
<1>3. ASSUME NEW c \in Callers, NEW r \in Requests, BeginSubmit(c, r)
      PROVE  KeptInv' /\ OneRequest
  <2>1. c \in Everyone /\ "submitting" \in Places
    BY Constants DEF Places
  <2>2. Occupy(c, r, "submitting", Null) /\ UNCHANGED <<inst, step, row, hits>>
    BY <1>3 DEF BeginSubmit, Begin, tables
  <2> QED BY <2>1, <2>2, KeptBegin DEF Granting, Before, After, Undoing, Reverting, Staging
<1>4. ASSUME NEW c \in Callers, NEW r \in Requests, BeginDiscard(c, r)
      PROVE  KeptInv' /\ OneRequest
  <2>1. c \in Everyone /\ "discarding" \in Places
    BY Constants DEF Places
  <2>2. Occupy(c, r, "discarding", Null) /\ UNCHANGED <<inst, step, row, hits>>
    BY <1>4 DEF BeginDiscard, Begin, tables
  <2> QED BY <2>1, <2>2, KeptBegin DEF Granting, Before, After, Undoing, Reverting, Staging
<1>5. ASSUME NEW c \in Callers, NEW r \in Requests, NEW place \in {"approving", "rejecting"},
             BeginDecide(c, r, place)
      PROVE  KeptInv' /\ OneRequest
  <2>1. c \in Everyone /\ place \in Places
    BY Constants DEF Places
  <2>2. PICK s \in Lowest(r) : Begin(c, r, place, s)
    BY <1>5 DEF BeginDecide
  <2>3. s \in Steps \cup {Null}
    BY DEF Lowest, Pending
  <2>4. Occupy(c, r, place, s) /\ UNCHANGED <<inst, step, row, hits>>
    BY <1>5, <2>2 DEF BeginDecide, Begin, tables
  <2>5. place \notin Staging \cup Reverting \cup {"cancelling", "undoing"} \cup Granting
    BY DEF Granting, Before, After, Undoing, Reverting, Staging
  <2> QED BY <2>1, <2>3, <2>4, <2>5, KeptBegin
<1>6. ASSUME NEW c \in Callers, NEW r \in Requests, BeginCancel(c, r)
      PROVE  KeptInv' /\ OneRequest
  <2>1. c \in Everyone /\ "undoing" \in Places
    BY Constants DEF Places, Domain
  <2>2. /\ Occupy(c, r, "undoing", Null)
        /\ UNCHANGED <<inst, step, row>>
        /\ Hit(r, IF AtWork(r) # {} THEN {"overlap"} ELSE {})
    BY <1>6 DEF BeginCancel, Begin, tables
  <2>3. inst[r].status \in Status
    BY DEF TypeOK, Instance
  <2> QED BY <1>6, <2>1, <2>2, <2>3, HitMoves, KeptBegin
       DEF BeginCancel, Status, Granting, Before, After, Undoing, Reverting, Staging
<1>7. ASSUME NEW c \in Callers, NEW r \in Requests, BeginRetry(c, r)
      PROVE  KeptInv' /\ OneRequest
  <2>1. c \in Everyone /\ "resetting" \in Places
    BY Constants DEF Places, Domain
  <2>2. /\ Occupy(c, r, "resetting", Null)
        /\ UNCHANGED <<inst, step, row>>
        /\ Hit(r, IF AtWork(r) # {} THEN {"overlap"} ELSE {})
    BY <1>7 DEF BeginRetry, Begin, tables
  <2>3. inst[r].status \in Status
    BY DEF TypeOK, Instance
  <2> QED BY <1>7, <2>1, <2>2, <2>3, HitMoves, KeptBegin
       DEF BeginRetry, Status, Granting, Before, After, Undoing, Reverting, Staging
<1>8. ASSUME NEW c \in Everyone, NEW n \in Submissions, Submit(c, n) PROVE KeptInv' /\ OneRequest
  BY <1>8, KeptSubmit
<1>9. ASSUME NEW c \in Everyone, CheckConflict(c) PROVE KeptInv' /\ OneRequest
  BY <1>9, KeptCheckConflict
<1>10. ASSUME NEW c \in Everyone, StageLeave(c) PROVE KeptInv' /\ OneRequest
  BY <1>10, KeptStageLeave
<1>11. ASSUME NEW c \in Everyone, LinkStaged(c) PROVE KeptInv' /\ OneRequest
  BY <1>11, KeptLinkStaged
<1>12. ASSUME NEW c \in Everyone, Discard(c) PROVE KeptInv' /\ OneRequest
  BY <1>12, KeptDiscard
<1>13. ASSUME NEW c \in Everyone, UndoStaged(c) PROVE KeptInv' /\ OneRequest
  BY <1>13, KeptUndoStaged
<1>14. ASSUME NEW c \in Everyone, Release(c) PROVE KeptInv' /\ OneRequest
  <2>1. call[c] # Null /\ call[c] \in Call /\ call[c].at = "releasing"
    BY <1>14 DEF Release, At, CallOK
  <2>2. PICK r \in Requests : call[c].on = r
    BY <2>1 DEF Call
  <2>3. Only(c) /\ Goes(c, "erasing")
    BY <1>14, <2>1, KeptMoves DEF Release, Places, Domain
  <2>4. /\ UNCHANGED <<row, step, hits>>
        /\ \A q \in Requests \ {r} : inst'[q] = inst[q]
        /\ inst'[r].status = inst[r].status
        /\ inst'[r].kind = inst[r].kind
        /\ inst'[r].staged = inst[r].staged
        /\ inst'[r].entity = inst[r].entity
    BY <1>14, <2>2 DEF Release, tables, TypeOK, Instance
  <2>5. Sees(c)'
    BY <2>1, <2>2, <2>3, KeptCall DEF Sees, Goes, Withdrawing, Reverting, Undoing
  <2> QED BY <2>1, <2>2, <2>3, <2>4, <2>5, KeptCall, KeptStill
       DEF Goes, Granting, Before, After, Undoing, Reverting, Staging
<1>15. ASSUME NEW c \in Everyone, UndoApproved(c) PROVE KeptInv' /\ OneRequest
  BY <1>15, KeptUndoApproved
<1>16. ASSUME NEW c \in Everyone, RefuseErase(c) PROVE KeptInv' /\ OneRequest
  <2>1. call[c] # Null /\ call[c] \in Call /\ call[c].at = "erasing"
    BY <1>16 DEF RefuseErase, At, CallOK
  <2>2. PICK r \in Requests : call[c].on = r
    BY <2>1 DEF Call
  <2>3. Only(c) /\ Ends(c)
    BY <1>16, <2>1, KeptMoves DEF RefuseErase
  <2>4. /\ UNCHANGED <<row, step, hits>>
        /\ \A q \in Requests \ {r} : inst'[q] = inst[q]
        /\ inst'[r].status = inst[r].status
        /\ inst'[r].kind = inst[r].kind
        /\ inst'[r].staged = inst[r].staged
        /\ inst'[r].entity = inst[r].entity
    BY <1>16, <2>2 DEF RefuseErase, tables, TypeOK, Instance
  <2> QED BY <2>1, <2>2, <2>3, <2>4, KeptCall, KeptStill DEF Staging
<1>17. ASSUME NEW c \in Everyone, Unlink(c) PROVE KeptInv' /\ OneRequest
  <2>1. call[c] # Null /\ call[c] \in Call /\ call[c].at = "unlinking"
    BY <1>17 DEF Unlink, At, CallOK
  <2>2. PICK r \in Requests : call[c].on = r
    BY <2>1 DEF Call
  <2>3. Only(c) /\ Goes(c, "cancelling")
    BY <1>17, <2>1, KeptMoves DEF Unlink, Places, Domain
  <2>4. /\ UNCHANGED <<row, step, hits>>
        /\ \A q \in Requests \ {r} : inst'[q] = inst[q]
        /\ inst'[r].status = inst[r].status
        /\ inst'[r].kind = inst[r].kind
        /\ inst'[r].staged = inst[r].staged
        /\ inst'[r].entity = inst[r].entity
    BY <1>17, <2>2 DEF Unlink, tables, TypeOK, Instance
  <2>5. Sees(c)'
    BY <2>1, <2>2, <2>3, KeptCall DEF Sees, Goes, Withdrawing, Reverting, Undoing
  <2>6. hits'[r] = {} => Effects(r) = {} /\ call'[c].seen = "approved"
    <3>1. c \in AtWork(r)
      BY <2>1, <2>2 DEF AtWork, Domain
    <3> QED BY <2>1, <2>2, <2>3, <2>4, <3>1, KeptCall
         DEF Once, InHand, Before, Sees, Reverting, Goes
  <2> QED BY <2>1, <2>2, <2>3, <2>4, <2>5, <2>6, KeptCall, KeptStill
       DEF Goes, Granting, Before, After, Undoing, Reverting, Staging
<1>18. ASSUME NEW c \in Everyone, Erase(c) PROVE KeptInv' /\ OneRequest
  BY <1>18, KeptErase
<1>19. ASSUME NEW c \in Everyone, Cancel(c) PROVE KeptInv' /\ OneRequest
  BY <1>19, KeptCancel
<1>20. ASSUME NEW c \in Everyone, Approve(c) PROVE KeptInv' /\ OneRequest
  BY <1>20, KeptApprove
<1>21. ASSUME NEW c \in Everyone, Reject(c) PROVE KeptInv' /\ OneRequest
  BY <1>21, KeptReject
<1>22. ASSUME NEW c \in Everyone, Unstage(c) PROVE KeptInv' /\ OneRequest
  BY <1>22, KeptUnstage
<1>23. ASSUME NEW c \in Everyone, Reset(c) PROVE KeptInv' /\ OneRequest
  <2>1. call[c] # Null /\ call[c] \in Call /\ call[c].at = "resetting"
    BY <1>23 DEF Reset, At, CallOK
  <2>2. PICK r \in Requests : call[c].on = r
    BY <2>1 DEF Call
  <2>3. Only(c) /\ Ends(c)
    BY <1>23, <2>1, KeptMoves DEF Reset, Places, Ends
  <2>4. /\ UNCHANGED <<row, step, hits>>
        /\ \A q \in Requests \ {r} : inst'[q] = inst[q]
        /\ inst'[r].status = inst[r].status
        /\ inst'[r].kind = inst[r].kind
        /\ inst'[r].staged = inst[r].staged
        /\ inst'[r].entity = Null
    BY <1>23, <2>2 DEF Reset, tables, TypeOK, Instance
  <2> QED BY <2>1, <2>2, <2>3, <2>4, KeptCall, KeptStill DEF Staging
<1>24. ASSUME NEW c \in Everyone, Check(c) PROVE KeptInv' /\ OneRequest
  <2>1. call[c] # Null /\ call[c] \in Call /\ call[c].at = "checking"
    BY <1>24 DEF Check, At, CallOK
  <2>2. PICK r \in Requests : call[c].on = r
    BY <2>1 DEF Call
  <2>3. /\ Only(c)
        /\ Ends(c) \/ (Goes(c, "claiming") /\ inst[r].status = "approved")
    BY <1>24, <2>1, <2>2, KeptMoves DEF Check, Places, Domain
  <2>4. /\ UNCHANGED <<inst, row, step>>
        /\ hits[r] \subseteq hits'[r]
        /\ \A q \in Requests \ {r} : hits'[q] = hits[q]
    BY <1>24, <2>2, HitMoves DEF Check, tables
  <2>5. Goes(c, "claiming") => Sees(c)'
    BY DEF Sees, Goes, Withdrawing, Reverting, Undoing
  <2> QED BY <2>1, <2>2, <2>3, <2>4, <2>5, KeptCall, KeptStill DEF Goes, Staging
<1>25. ASSUME NEW c \in Everyone, Claim(c) PROVE KeptInv' /\ OneRequest
  <2>1. call[c] # Null /\ call[c] \in Call /\ call[c].at = "claiming"
    BY <1>25 DEF Claim, At, CallOK
  <2>2. PICK r \in Requests : call[c].on = r
    BY <2>1 DEF Call
  <2>3. Only(c) /\ Goes(c, "looking")
    BY <1>25, <2>1, KeptMoves DEF Claim, Places, Domain
  <2>4. /\ UNCHANGED <<row, step, hits>>
        /\ \A q \in Requests \ {r} : inst'[q] = inst[q]
        /\ inst'[r].status = inst[r].status
        /\ inst'[r].kind = inst[r].kind
        /\ inst'[r].staged = inst[r].staged
        /\ inst'[r].entity = inst[r].entity
    BY <1>25, <2>2 DEF Claim, tables, TypeOK, Instance
  <2>5. Sees(c)'
    BY <2>1, <2>2, <2>3, KeptCall DEF Sees, Goes, Withdrawing, Reverting, Undoing
  <2> QED BY <2>1, <2>2, <2>3, <2>4, <2>5, KeptCall, KeptStill
       DEF Goes, Granting, Before, After, Undoing, Reverting, Staging
<1>26. ASSUME NEW c \in Everyone, LookLeave(c) PROVE KeptInv' /\ OneRequest
  <2>1. call[c] # Null /\ call[c] \in Call /\ call[c].at = "looking"
    BY <1>26 DEF LookLeave, At, CallOK
  <2>2. PICK r \in Requests : call[c].on = r
    BY <2>1 DEF Call
  <2>3. /\ UNCHANGED <<row, step, hits>>
        /\ \A q \in Requests \ {r} : inst'[q] = inst[q]
        /\ inst'[r].status = inst[r].status
        /\ inst'[r].kind = inst[r].kind
        /\ inst'[r].staged = inst[r].staged
        /\ inst'[r].entity \in {inst[r].entity, Null}
    BY <1>26, <2>2 DEF LookLeave, Failed, TypeOK, Instance
  <2>4. CASE Finish(c)
    <3>1. Only(c) /\ Ends(c)
      BY <2>1, <2>4, KeptMoves
    <3> QED BY <2>1, <2>2, <2>3, <3>1, KeptCall, KeptStill DEF Staging
  <2>5. CASE ~Finish(c)
    <3>1. call' = [call EXCEPT ![c].id = inst[r].staged, ![c].at = "writing"]
      BY <1>26, <2>2, <2>5 DEF LookLeave
    <3>2. [call[c] EXCEPT !.id = inst[r].staged, !.at = "writing"] \in Call
      BY <2>1 DEF Call, TypeOK, Instance, Places, Domain
    <3>3. /\ Only(c)
          /\ call'[c] # Null
          /\ call'[c].at = "writing"
          /\ call'[c].on = r
          /\ call'[c].id = inst[r].staged
      BY <2>1, <2>2, <3>1, <3>2, CallAssumption DEF Only, CallOK, Call
    <3>4. Sees(c)'
      BY <3>3 DEF Sees, Withdrawing, Reverting, Undoing
    <3> QED BY <2>1, <2>2, <2>3, <3>3, <3>4, KeptCall, KeptStill DEF Staging, Granting, Before
  <2> QED BY <2>4, <2>5
<1>27. ASSUME NEW c \in Everyone, LookOvertime(c) PROVE KeptInv' /\ OneRequest
  <2>1. call[c] # Null /\ call[c] \in Call /\ call[c].at = "looking"
    BY <1>27 DEF LookOvertime, At, CallOK
  <2>2. PICK r \in Requests : call[c].on = r
    BY <2>1 DEF Call
  <2>3. UNCHANGED <<row, step, hits>>
    BY <1>27 DEF LookOvertime
  <2>4. CASE Live(r) # {}
    <3>1. /\ \A q \in Requests \ {r} : inst'[q] = inst[q]
          /\ inst'[r].status = inst[r].status
          /\ inst'[r].kind = inst[r].kind
          /\ inst'[r].staged = inst[r].staged
          /\ inst'[r].entity = Null
      BY <1>27, <2>2, <2>4 DEF LookOvertime, Failed, TypeOK, Instance
    <3>2. Only(c) /\ Ends(c)
      BY <1>27, <2>1, <2>2, <2>4, KeptMoves DEF LookOvertime
    <3> QED BY <2>1, <2>2, <2>3, <3>1, <3>2, KeptCall, KeptStill DEF Staging
  <2>5. CASE Live(r) = {}
    <3>1. Only(c) /\ Goes(c, "finding") /\ UNCHANGED inst
      BY <1>27, <2>1, <2>2, <2>5, KeptMoves DEF LookOvertime, Places, Domain
    <3>2. Sees(c)'
      BY <3>1 DEF Goes, Sees, Withdrawing, Reverting, Undoing
    <3> QED BY <2>1, <2>2, <2>3, <3>1, <3>2, KeptCall, KeptStill DEF Goes, Staging, Granting, Before
  <2> QED BY <2>4, <2>5
<1>38. ASSUME NEW c \in Everyone, FindOvertime(c) PROVE KeptInv' /\ OneRequest
  BY <1>38, KeptFind
<1>28. ASSUME NEW c \in Everyone, LookAdvance(c) PROVE KeptInv' /\ OneRequest
  <2>1. call[c] # Null /\ call[c] \in Call /\ call[c].at = "looking"
    BY <1>28 DEF LookAdvance, At, CallOK
  <2>2. PICK r \in Requests : call[c].on = r
    BY <2>1 DEF Call
  <2>3. Only(c) /\ Goes(c, "writing")
    BY <1>28, <2>1, KeptMoves DEF LookAdvance, Places, Domain
  <2>4. /\ UNCHANGED <<row, step, hits>>
        /\ \A q \in Requests \ {r} : inst'[q] = inst[q]
        /\ inst'[r].status = inst[r].status
        /\ inst'[r].kind = inst[r].kind
        /\ inst'[r].staged = inst[r].staged
        /\ inst'[r].entity = inst[r].entity
    BY <1>28, <2>2 DEF LookAdvance, tables, TypeOK, Instance
  <2>5. Sees(c)'
    BY <2>1, <2>2, <2>3, KeptCall DEF Sees, Goes, Withdrawing, Reverting, Undoing
  <2> QED BY <2>1, <2>2, <2>3, <2>4, <2>5, KeptCall, KeptStill
       DEF Goes, Granting, Before, After, Undoing, Reverting, Staging
<1>29. ASSUME NEW c \in Everyone, Write(c) PROVE KeptInv' /\ OneRequest
  BY <1>29, KeptWrite
<1>30. ASSUME NEW c \in Everyone, ReadBalance(c) PROVE KeptInv' /\ OneRequest
  <2>1. call[c] # Null /\ call[c] \in Call /\ call[c].at \in {"consuming", "freeing"}
    BY <1>30 DEF ReadBalance, CallOK
  <2>2. PICK r \in Requests : call[c].on = r
    BY <2>1 DEF Call
  <2> DEFINE at == IF call[c].at = "consuming" THEN "charging" ELSE "releasing"
  <2>3. call' = [call EXCEPT ![c].read = balance, ![c].at = at]
    BY <1>30, <2>1 DEF ReadBalance, CallOK, Call
  <2>4. /\ at \in {"charging", "releasing"}
        /\ at = "releasing" => call[c].at = "freeing"
    BY <2>1
  <2> HIDE DEF at
  <2>5. [call[c] EXCEPT !.read = balance, !.at = at] \in Call
    BY <2>1, <2>4 DEF Call, TypeOK, Places, Domain
  <2>6. /\ Only(c)
        /\ call'[c] # Null
        /\ call'[c].at = at
        /\ call'[c].on = r
        /\ call'[c].id = call[c].id
        /\ call'[c].seen = call[c].seen
    <3>1. call'[c] = [call[c] EXCEPT !.read = balance, !.at = at] /\ Only(c)
      BY <2>3 DEF Only, CallOK
    <3> QED BY <2>1, <2>2, <2>5, <3>1, CallAssumption DEF Call
  <2>7. Sees(c)'
    BY <2>1, <2>2, <2>4, <2>6, KeptCall DEF Sees, Withdrawing, Reverting, Undoing
  <2>8. /\ UNCHANGED <<inst, row, step>>
        /\ hits[r] \subseteq hits'[r]
        /\ \A q \in Requests \ {r} : hits'[q] = hits[q]
    BY <1>30, <2>2, HitMoves DEF ReadBalance, tables
  <2> QED BY <2>1, <2>2, <2>4, <2>6, <2>7, <2>8, KeptCall, KeptStill
       DEF Staging, Granting, Before, After, Undoing
<1>31. ASSUME NEW c \in Everyone, Charge(c) PROVE KeptInv' /\ OneRequest
  <2>1. call[c] # Null /\ call[c] \in Call /\ call[c].at = "charging"
    BY <1>31 DEF Charge, At, CallOK
  <2>2. PICK r \in Requests : call[c].on = r
    BY <2>1 DEF Call
  <2>3. Only(c) /\ Goes(c, "marking")
    BY <1>31, <2>1, KeptMoves DEF Charge, Places, Domain
  <2>4. /\ UNCHANGED <<row, step, hits>>
        /\ \A q \in Requests \ {r} : inst'[q] = inst[q]
        /\ inst'[r].status = inst[r].status
        /\ inst'[r].kind = inst[r].kind
        /\ inst'[r].staged = inst[r].staged
        /\ inst'[r].entity = inst[r].entity
    BY <1>31, <2>2 DEF Charge, tables, TypeOK, Instance
  <2>5. Sees(c)'
    BY <2>1, <2>2, <2>3, KeptCall DEF Sees, Goes, Withdrawing, Reverting, Undoing
  <2> QED BY <2>1, <2>2, <2>3, <2>4, <2>5, KeptCall, KeptStill
       DEF Goes, Granting, Before, After, Undoing, Reverting, Staging
<1>32. ASSUME NEW c \in Everyone, Mark(c) PROVE KeptInv' /\ OneRequest
  <2>1. call[c] # Null /\ call[c] \in Call /\ call[c].at = "marking"
    BY <1>32 DEF Mark, At, CallOK
  <2>2. PICK r \in Requests : call[c].on = r
    BY <2>1 DEF Call
  <2>3. Only(c) /\ Ends(c)
    BY <1>32, <2>1, KeptMoves DEF Mark
  <2>4. /\ UNCHANGED <<row, step, hits>>
        /\ \A q \in Requests \ {r} : inst'[q] = inst[q]
        /\ inst'[r].status = inst[r].status
        /\ inst'[r].kind = inst[r].kind
        /\ inst'[r].staged = inst[r].staged
        /\ inst'[r].entity = call[c].id
    BY <1>32, <2>2 DEF Mark, tables, TypeOK, Instance
  <2> QED BY <2>1, <2>2, <2>3, <2>4, KeptCall, KeptStill DEF Staging
<1>33. ASSUME NEW c \in Everyone, Fail(c) PROVE KeptInv' /\ OneRequest
  <2>1. /\ call[c] # Null
        /\ call[c] \in Call
        /\ call[c].at \in {"looking", "finding", "writing", "consuming", "charging", "marking"}
    BY <1>33 DEF Fail, CallOK
  <2>2. PICK r \in Requests : call[c].on = r
    BY <2>1 DEF Call
  <2>3. Only(c) /\ Ends(c)
    BY <1>33, <2>1, KeptMoves DEF Fail
  <2>4. /\ UNCHANGED <<row, step>>
        /\ \A q \in Requests \ {r} : inst'[q] = inst[q]
        /\ inst'[r].status = inst[r].status
        /\ inst'[r].kind = inst[r].kind
        /\ inst'[r].staged = inst[r].staged
        /\ inst'[r].entity = Null
    BY <1>33, <2>2 DEF Fail, Failed, TypeOK, Instance
  <2>5. hits[r] \subseteq hits'[r] /\ \A q \in Requests \ {r} : hits'[q] = hits[q]
    BY <1>33, <2>2, HitMoves DEF Fail
  <2> QED BY <2>1, <2>2, <2>3, <2>4, <2>5, KeptCall, KeptStill DEF Staging
<1>34. ASSUME NEW c \in Everyone, Crash(c) PROVE KeptInv' /\ OneRequest
  <2>1. call[c] # Null /\ call[c] \in Call
    BY <1>34 DEF Crash, CallOK
  <2>2. PICK r \in Requests : call[c].on = r
    BY <2>1 DEF Call
  <2>3. Only(c) /\ Ends(c) /\ UNCHANGED <<inst, row, step>>
    BY <1>34 DEF Crash, Only, Ends, CallOK, tables
  <2>4. Hit(r, IF Unfinished(c) THEN {"crash"} ELSE {})
    BY <1>34, <2>2 DEF Crash
  <2> QED BY <2>1, <2>2, <2>3, <2>4, KeptStops
<1>39. ASSUME NEW c \in Everyone, Abort(c) PROVE KeptInv' /\ OneRequest
  <2>1. call[c] # Null /\ call[c] \in Call
    BY <1>39 DEF Abort, CallOK
  <2>2. PICK r \in Requests : call[c].on = r
    BY <2>1 DEF Call
  <2>3. Only(c) /\ Ends(c) /\ UNCHANGED <<inst, row, step>>
    BY <1>39, <2>1, KeptMoves DEF Abort, tables
  <2>4. Hit(r, IF Unfinished(c) THEN {"partial"} ELSE {})
    BY <1>39, <2>2 DEF Abort
  <2> QED BY <2>1, <2>2, <2>3, <2>4, KeptStops
<1>35. CASE Start
  <2>1. Boot \in Everyone
    BY Constants
  <2>2. UNCHANGED <<inst, row, step, hits>> /\ call[Boot] = Null
    BY <1>35 DEF Start, tables
  <2>3. CASE Incomplete = {}
    BY <1>35, <2>2, <2>3, KeptUnchanged DEF Start
  <2>4. CASE Incomplete # {}
    <3>1. PICK r \in Incomplete :
             call' = [call EXCEPT ![Boot] = Fresh(r, "checking", Incomplete \ {r})]
      BY <1>35, <2>4 DEF Start
    <3>2. r \in Requests
      BY DEF Incomplete
    <3>3. Only(Boot) /\ Ends(Boot)
      BY <2>1, <3>1 DEF CallOK, Only, Ends, Fresh
    <3>4. inst[r].entity \in Mine(r)
      BY <3>2 DEF KeptInv, Owned
    <3> QED BY <2>1, <2>2, <3>2, <3>3, <3>4, KeptStill
  <2> QED BY <2>3, <2>4
<1>36. CASE Deploy
  BY <1>36, KeptUnchanged DEF Deploy, tables
<1>37. CASE UNCHANGED vars
  BY <1>37, KeptUnchanged DEF vars, tables, bounds
<1> QED
  BY <1>1, <1>2, <1>3, <1>4, <1>5, <1>6, <1>7, <1>8, <1>9, <1>10, <1>11, <1>12, <1>13, <1>14,
    <1>15, <1>16, <1>17, <1>18, <1>19, <1>20, <1>21, <1>22, <1>23, <1>24, <1>25, <1>26, <1>27,
    <1>28, <1>29, <1>30, <1>31, <1>32, <1>33, <1>34, <1>35, <1>36, <1>37, <1>38, <1>39
     DEF Next, Arrive, Progress

\* Nothing has been asked for at first.
LEMMA KeptInit == Init => KeptInv
<1> SUFFICES ASSUME Init PROVE KeptInv
  OBVIOUS
<1>1. OrderInv /\ OnceInv
  BY OrderInit, OnceInit
<1>2. \A c \in Everyone : call[c] = Null
  BY DEF Init
<1>3. Owned /\ WorkSees
  BY <1>2 DEF Init, Idle, Owned, Mine, WorkSees
<1>4. ASSUME NEW r \in Requests PROVE Sound(r) /\ Tidy(r)
  <2>1. Effects(r) = {} /\ Staged(r) = {}
    BY DEF Init, Effects, Staged
  <2>2. AtWork(r) = {} /\ Stagers(r) = {}
    BY <1>2 DEF AtWork, Stagers
  <2>3. inst[r].status = "none"
    BY DEF Init, Idle
  <2> QED BY <2>1, <2>2, <2>3 DEF Sound, Tidy, Cleared, Named
<1> QED BY <1>1, <1>3, <1>4 DEF KeptInv, KeptUnlessHit

\* The phase of a request, in terms of its status and effects.
LEMMA Phased ==
    ASSUME KeptInv, NEW r \in Requests
    PROVE  /\ hits[r] # {} => Phase(r) = "disturbed"
           /\ hits[r] = {} =>
                 /\ inst[r].status = "none" => Phase(r) = "none"
                 /\ inst[r].status = "draft" => Phase(r) = "draft"
                 /\ inst[r].status = "in_review" => Phase(r) = "review"
                 /\ inst[r].status = "rejected" => Phase(r) = "refused"
                 /\ inst[r].status = "cancelled" => Phase(r) = "withdrawn"
                 /\ inst[r].status = "approved" /\ Effects(r) = {} => Phase(r) = "accepted"
                 /\ inst[r].status = "approved" /\ Effects(r) # {} => Phase(r) = "applied"
           /\ Phase(r) \in Contract!Phases
<1>1. inst[r].status \in Status
  BY DEF KeptInv, OrderInv, TypeOK, Instance
<1>2. hits[r] = {} /\ inst[r].status # "approved" => Effects(r) = {}
  BY DEF KeptInv, KeptUnlessHit, Sound
<1> QED BY <1>1, <1>2 DEF Phase, Status, Contract!Phases

\* A step of the platform is a step of the contract, or changes no phase.
LEMMA ContractStep ==
    ASSUME KeptInv, KeptInv', OneRequest
    PROVE  [Contract!Next]_[r \in Requests |-> Phase(r)]
<1>1. CASE UNCHANGED <<inst, row, hits>>
  <2>1. \A r \in Requests : Phase(r)' = Phase(r)
    BY <1>1 DEF Phase, Effects
  <2> QED BY <2>1
<1>2. CASE ~UNCHANGED <<inst, row, hits>>
  <2>1. PICK r \in Requests :
           /\ Decides(r)
           /\ hits[r] \subseteq hits'[r]
           /\ \A q \in Requests \ {r} :
                 inst'[q] = inst[q] /\ hits'[q] = hits[q] /\ Effects(q)' = Effects(q)
    BY <1>2 DEF OneRequest
  <2> DEFINE phase == [q \in Requests |-> Phase(q)]
  <2>2. \A q \in Requests \ {r} : Phase(q)' = Phase(q)
    BY <2>1 DEF Phase
  <2>3. phase' = [phase EXCEPT ![r] = Phase(r)'] /\ phase[r] = Phase(r)
    BY <2>2
  <2>4. \/ Phase(r)' = Phase(r)
        \/ Phase(r)' = "disturbed"
        \/ Phase(r) = "none" /\ Phase(r)' = "draft"
        \/ Phase(r) \in {"none", "draft"} /\ Phase(r)' = "review"
        \/ Phase(r) = "review" /\ Phase(r)' \in {"accepted", "refused"}
        \/ Phase(r) = "accepted" /\ Phase(r)' = "applied"
        \/ Phase(r) = "applied" /\ Phase(r)' = "accepted"
        \/ Phase(r) \in {"draft", "review", "accepted"} /\ Phase(r)' = "withdrawn"
    <3>1. CASE hits'[r] # {}
      BY <3>1 DEF Phase
    <3>2. CASE hits'[r] = {}
      <4>1. hits[r] = {}
        BY <2>1, <3>2
      <4>2. CASE inst'[r].status = inst[r].status
        <5>1. inst[r].status # "approved" => Effects(r) = {} /\ Effects(r)' = {}
          BY <3>2, <4>1, <4>2 DEF KeptInv, KeptUnlessHit, Sound
        <5> QED BY <3>2, <4>1, <4>2, <5>1 DEF Phase
      <4>3. CASE row' = row /\ <<inst[r].status, inst'[r].status>> \in Course
        <5>1. Effects(r)' = Effects(r)
          BY <4>3 DEF Effects
        <5>2. Effects(r) = {}
          BY <3>2, <4>1, <4>3, <5>1 DEF Course, KeptInv, KeptUnlessHit, Sound
        <5> QED BY <3>2, <4>1, <4>3, <5>1, <5>2 DEF Course, Phase
      <4> QED BY <2>1, <3>2, <4>2, <4>3 DEF Decides
    <3> QED BY <3>1, <3>2
  <2>5. Phase(r) \in Contract!Phases
    BY Phased
  <2> HIDE DEF phase
  <2>6. [Contract!Next]_phase
    BY <2>3, <2>4, <2>5
       DEF phase, Contract!Next, Contract!Open, Contract!Submit, Contract!Accept, Contract!Refuse,
           Contract!Apply, Contract!Undo, Contract!Withdraw, Contract!Disturb, Contract!Move
  <2> QED BY <2>6 DEF phase
<1> QED BY <1>1, <1>2

\* The platform keeps its contract: a request takes effect only while it is approved
\* and is withdrawn only when its effect is taken back, at every moment and in any
\* interleaving, until an irregularity hits it.
THEOREM ContractKept == Spec => KeepsContract
<1>1. Init => Contract!Init
  BY DEF Init, Idle, Phase, Effects, Contract!Init
<1>2. KeptInv /\ [Next]_vars => KeptInv' /\ [Contract!Next]_[r \in Requests |-> Phase(r)]
  BY KeptStep, ContractStep
<1> QED BY <1>1, <1>2, KeptInit, PTL DEF Spec, KeepsContract, Contract!Spec

\* A request closed before its last approval leaves nothing in the other modules, as
\* soon as the calls on it have ended, unless an irregularity hit it.
THEOREM NothingLeft == Spec => []ClosedLeavesNothing
<1>1. KeptInv => ClosedLeavesNothing
  <2> SUFFICES ASSUME KeptInv, NEW r \in Requests, hits[r] = {},
                      inst[r].status \in {"rejected", "cancelled"},
                      NEW s \in Steps, step[r][s] \in {"rejected", "cancelled"},
                      \A c \in Everyone : call[c] = Null \/ call[c].on # r
               PROVE  Live(r) = {}
    BY DEF ClosedLeavesNothing
  <2>1. Sound(r) /\ Tidy(r)
    BY DEF KeptInv, KeptUnlessHit
  <2>2. Effects(r) = {}
    BY <2>1 DEF Sound
  <2>3. ~Passed(r) /\ Unstagers(r) = {}
    BY DEF Passed, Unstagers
  <2>4. Staged(r) = {}
    BY <2>1, <2>3 DEF Tidy, Cleared
  <2> QED BY <2>2, <2>4 DEF Effects, Staged, Live
<1> QED BY <1>1, KeptInit, KeptStep, PTL DEF Spec
-----------------------------------------------------------------------------
(***************************************************************************)
(* The balance.  Between the write of a leave request and the write of its *)
(* charge the two disagree, and so they do between the release of the days *)
(* and the return of the leave request.  The invariant counts the leave    *)
(* requests nobody is in between with (Charged), says that a reading of    *)
(* the balance is still good when it is used, and that it is used for an   *)
(* approved leave.                                                         *)
(***************************************************************************)
Between == {"consuming", "charging", "erasing"}
Paying  == {"consuming", "charging", "freeing", "releasing"}

\* The call has nothing to do with the balance.
Free(c) == call[c] = Null \/ call[c].at \notin Between \cup Paying

InBetween == {c \in Everyone : call[c] # Null /\ call[c].at \in Between}
Charged   == LeaveEffects \ {call[c].id : c \in InBetween}

\* A call that pays, or is about to, does so for an approved leave request.
PaysForLeave ==
    \A r \in Requests : \A c \in Everyone :
        call[c] # Null /\ call[c].on = r /\ call[c].at \in Paying
            => inst[r].kind = "leave" /\ call[c].id \in Effects(r)

\* One call at a time has read the balance, and nobody has written it since.
ReadingGood == \A c \in Holders : call[c].read = balance /\ Holders \subseteq {c}

Account ==
    /\ IsFiniteSet(Charged)
    /\ balance = Cardinality(Charged)
    /\ ReadingGood
    /\ PaysForLeave

Calm == \A r \in Requests : hits[r] = {}

AccountInv == KeptInv /\ (Calm => Account)

\* The step moves only calls that have nothing to do with the balance.
Quiet == \A d \in Everyone : call'[d] = call[d] \/ (Free(d) /\ Free(d)')

\* An approved leave request, and only that, is one of the leave effects.
LEMMA LeaveRow ==
    ASSUME NEW r \in Requests, NEW id \in Ids, row[id].of = r
    PROVE  id \in LeaveEffects <=> row[id].status = "approved" /\ inst[r].kind = "leave"
BY DEF LeaveEffects, Effects

\* The leave effects stay the same when the approved rows do, and the kinds of the
\* requests that have one.
LEMMA LeaveSame ==
    ASSUME \A id \in Ids : \/ row'[id] = row[id]
                           \/ row[id].status # "approved" /\ row'[id].status # "approved",
           \A r \in Requests : inst'[r].kind = inst[r].kind \/ Effects(r) = {}
    PROVE  /\ LeaveEffects' = LeaveEffects
           /\ \A r \in Requests : Effects(r)' = Effects(r)
<1>1. \A r \in Requests : Effects(r)' = Effects(r)
  BY DEF Effects
<1>2. LeaveEffects = {id \in Ids : \E r \in Requests : inst[r].kind = "leave" /\ id \in Effects(r)}
  BY DEF LeaveEffects, Effects
<1>3. LeaveEffects' =
         {id \in Ids : \E r \in Requests : inst'[r].kind = "leave" /\ id \in Effects(r)'}
  BY DEF LeaveEffects, Effects
<1> QED BY <1>1, <1>2, <1>3

\* The account stays in order when the balance, the leave effects and the calls that
\* pay are left alone, ...
LEMMA AccountSame ==
    ASSUME Account, balance' = balance, Quiet,
           LeaveEffects' = LeaveEffects,
           \A r \in Requests : Effects(r) \subseteq Effects(r)',
           \A r \in Requests : inst'[r].kind = inst[r].kind \/ Effects(r) = {}
    PROVE  Account'
<1>2. InBetween' = InBetween /\ \A c \in InBetween : call'[c] = call[c]
  BY DEF InBetween, Quiet, Free
<1>3. Holders' = Holders /\ \A c \in Holders : call'[c] = call[c]
  BY DEF Holders, Quiet, Free, Paying
<1>4. Charged' = Charged
  BY <1>2 DEF Charged
<1>5. ReadingGood'
  BY <1>3 DEF ReadingGood, Account
<1>6. PaysForLeave'
  BY DEF PaysForLeave, Account, Quiet, Free
<1> QED BY <1>4, <1>5, <1>6 DEF Account

\* ... as they are when the approved rows are.
LEMMA AccountFrame ==
    ASSUME Account, balance' = balance, Quiet,
           \A id \in Ids : \/ row'[id] = row[id]
                           \/ row[id].status # "approved" /\ row'[id].status # "approved",
           \A r \in Requests : inst'[r].kind = inst[r].kind \/ Effects(r) = {}
    PROVE  Account'
<1>1. LeaveEffects' = LeaveEffects /\ \A r \in Requests : Effects(r)' = Effects(r)
  BY LeaveSame
<1> QED BY <1>1, AccountSame

\* Calls that begin, end, or go on, do so without touching the balance.
LEMMA QuietMoves ==
    ASSUME CallOK, NEW c \in Everyone, Only(c), Free(c),
           \/ call'[c] = Null
           \/ call'[c].at \notin Between \cup Paying
    PROVE  Quiet
BY DEF Only, Quiet, Free

\* The rows of a call that is at work for a request without irregularities are in no
\* other call's hands.
LEMMA OwnHands ==
    ASSUME KeptInv, Calm, NEW c \in Everyone, NEW d \in Everyone, NEW r \in Requests,
           call[c] # Null, call[c].on = r, call[c].at \in Domain,
           call[d] # Null, call[d].at \in Domain,
           call[d].id # Null,
           row[call[d].id].of = r
    PROVE  d = c
<1>1. PICK q \in Requests : call[d].on = q
  BY DEF KeptInv, OrderInv, TypeOK, Call
<1>2. call[d].id \in Mine(q)
  BY <1>1, KeptCall
<1>3. q = r
  BY <1>2 DEF Mine
<1>4. Once(r)
  BY KeptCall DEF Calm
<1> QED BY <1>1, <1>3, <1>4 DEF Once, Alone, AtWork

\* An integration approves its row first, ...
LEMMA AccountWrite ==
    ASSUME KeptInv, Calm, Account, NEW c \in Everyone, Write(c)
    PROVE  Account'
<1>1. TypeOK /\ call[c] # Null /\ call[c] \in Call /\ call[c].at = "writing"
  BY DEF KeptInv, OrderInv, TypeOK, Write, At
<1>2. PICK r \in Requests : call[c].on = r
  BY <1>1 DEF Call
<1>3. PICK id : id = IF call[c].id # Null THEN call[c].id ELSE NewId
  OBVIOUS
<1>4. id \in Ids /\ (row[id].status = "none" \/ row[id].of = r)
  <2>1. CASE call[c].id # Null
    BY <1>1, <1>2, <1>3, <2>1, KeptCall DEF Call, Mine
  <2>2. CASE call[c].id = Null
    BY <1>1, <1>3, <2>2, NewIdType DEF Write
  <2> QED BY <2>1, <2>2
<1>5. /\ row' = [row EXCEPT ![id] = [of |-> r, status |-> "approved"]]
      /\ call' = [call EXCEPT ![c].id = id,
                              ![c].at = IF inst[r].kind = "leave" THEN "consuming" ELSE "marking"]
      /\ UNCHANGED <<inst, balance>>
  BY <1>2, <1>3 DEF Write
<1>6. /\ \A n \in Ids \ {id} : row'[n] = row[n]
      /\ row'[id].of = r
      /\ row'[id].status = "approved"
  BY <1>1, <1>4, <1>5 DEF TypeOK
<1>7. /\ Only(c)
      /\ call'[c] # Null
      /\ call'[c].on = r
      /\ call'[c].id = id
      /\ call'[c].at = IF inst[r].kind = "leave" THEN "consuming" ELSE "marking"
  <2>1. [call[c] EXCEPT !.id = id, !.at = IF inst[r].kind = "leave" THEN "consuming"
                                                                   ELSE "marking"] \in Call
    BY <1>1, <1>4 DEF Call, Places, Domain
  <2>2. Only(c) /\ call'[c] = [call[c] EXCEPT !.id = id, !.at = IF inst[r].kind = "leave"
                                                       THEN "consuming" ELSE "marking"]
    BY <1>1, <1>5 DEF TypeOK, Only
  <2> QED BY <1>1, <1>2, <2>1, <2>2, CallAssumption DEF Call
<1>8. Effects(r) = {}
  <2>1. Once(r) /\ c \in AtWork(r)
    BY <1>1, <1>2, KeptCall DEF Calm, AtWork, Domain
  <2> QED BY <1>1, <2>1 DEF Once, InHand, Before
<1>9. row[id].status # "approved"
  BY <1>4, <1>8 DEF Effects
<1>10. \A q \in Requests : Effects(q)' = Effects(q) \cup (IF q = r THEN {id} ELSE {})
  BY <1>4, <1>6, <1>9 DEF Effects
<1>11. LeaveEffects' = LeaveEffects \cup (IF inst[r].kind = "leave" THEN {id} ELSE {})
  BY <1>5, <1>10 DEF LeaveEffects
<1>12. /\ InBetween' = InBetween \cup (IF inst[r].kind = "leave" THEN {c} ELSE {})
       /\ c \notin InBetween
  BY <1>1, <1>7 DEF InBetween, Between, Only
<1>13. Charged' = Charged
  <2>1. id \notin LeaveEffects
    BY <1>9 DEF LeaveEffects, Effects
  <2>2. \A d \in InBetween : call'[d] = call[d]
    BY <1>7, <1>12 DEF Only, InBetween
  <2> QED BY <1>7, <1>11, <1>12, <2>1, <2>2 DEF Charged
<1>14. Holders' = Holders /\ \A d \in Holders : call'[d] = call[d]
  BY <1>1, <1>7 DEF Holders, Only
<1>15. ReadingGood'
  BY <1>5, <1>14 DEF ReadingGood, Account
<1>16. PaysForLeave'
  <2> SUFFICES ASSUME NEW q \in Requests, NEW d \in Everyone, call'[d] # Null, call'[d].on = q,
                      call'[d].at \in Paying
               PROVE  inst[q].kind = "leave" /\ call'[d].id \in Effects(q)'
    BY <1>5 DEF PaysForLeave
  <2>1. CASE d = c
    BY <1>7, <1>10, <2>1 DEF Paying
  <2>2. CASE d # c
    BY <1>7, <1>10, <2>2 DEF Only, PaysForLeave, Account
  <2> QED BY <2>1, <2>2
<1> QED BY <1>5, <1>13, <1>15, <1>16 DEF Account

\* ... reads the balance, ...
LEMMA AccountRead ==
    ASSUME KeptInv, Calm', Account, NEW c \in Everyone, ReadBalance(c)
    PROVE  Account'
<1>1. TypeOK /\ call[c] # Null /\ call[c] \in Call /\ call[c].at \in {"consuming", "freeing"}
  BY DEF KeptInv, OrderInv, TypeOK, ReadBalance
<1>2. PICK r \in Requests : call[c].on = r
  BY <1>1 DEF Call
<1>3. /\ UNCHANGED <<inst, row, balance>>
      /\ call' = [call EXCEPT ![c].read = balance,
                              ![c].at = IF @ = "consuming" THEN "charging" ELSE "releasing"]
  BY DEF ReadBalance, tables
<1>4. Holders = {}
  <2>1. hits'[r] = {} /\ (IF Holders # {} THEN {"overlap"} ELSE {}) \subseteq hits'[r]
    BY <1>1, <1>2, HitMoves DEF ReadBalance, Calm
  <2> QED BY <2>1
<1>5. /\ Only(c)
      /\ call'[c] # Null
      /\ call'[c].on = r
      /\ call'[c].id = call[c].id
      /\ call'[c].read = balance
      /\ call'[c].at = IF call[c].at = "consuming" THEN "charging" ELSE "releasing"
  <2>1. balance \in Nat
    BY <1>1 DEF TypeOK
  <2>2. [call[c] EXCEPT !.read = balance,
                        !.at = IF @ = "consuming" THEN "charging" ELSE "releasing"] \in Call
    BY <1>1, <2>1 DEF Call, Places, Domain
  <2>3. Only(c) /\ call'[c] = [call[c] EXCEPT !.read = balance,
                                  !.at = IF @ = "consuming" THEN "charging" ELSE "releasing"]
    BY <1>1, <1>3 DEF TypeOK, Only
  <2> QED BY <1>1, <1>2, <2>2, <2>3, CallAssumption DEF Call
<1>6. LeaveEffects' = LeaveEffects /\ \A q \in Requests : Effects(q)' = Effects(q)
  BY <1>3, LeaveSame
<1>7. InBetween' = InBetween /\ \A d \in InBetween : call'[d].id = call[d].id
  BY <1>1, <1>5 DEF InBetween, Between, Only
<1>8. Charged' = Charged
  BY <1>6, <1>7 DEF Charged
<1>9. Holders' = {c}
  BY <1>4, <1>5 DEF Holders, Only
<1>10. ReadingGood'
  BY <1>3, <1>5, <1>9 DEF ReadingGood
<1>11. PaysForLeave'
  <2> SUFFICES ASSUME NEW q \in Requests, NEW d \in Everyone, call'[d] # Null, call'[d].on = q,
                      call'[d].at \in Paying
               PROVE  inst[q].kind = "leave" /\ call'[d].id \in Effects(q)
    BY <1>3, <1>6 DEF PaysForLeave
  <2>1. CASE d = c
    BY <1>1, <1>2, <1>5, <2>1 DEF Paying, PaysForLeave, Account
  <2>2. CASE d # c
    BY <1>5, <2>2 DEF Only, PaysForLeave, Account
  <2> QED BY <2>1, <2>2
<1> QED BY <1>3, <1>8, <1>10, <1>11 DEF Account

\* ... and charges the leave it has approved.
LEMMA AccountCharge ==
    ASSUME KeptInv, Calm, Account, NEW c \in Everyone, Charge(c)
    PROVE  Account'
<1>1. TypeOK /\ CallOK /\ call[c] # Null /\ call[c] \in Call /\ call[c].at = "charging"
  BY DEF KeptInv, OrderInv, TypeOK, CallOK, Charge, At
<1>2. PICK r \in Requests : call[c].on = r
  BY <1>1 DEF Call
<1>3. Only(c) /\ Goes(c, "marking")
  BY <1>1, KeptMoves DEF Charge, Places, Domain
<1>4. UNCHANGED <<inst, row>> /\ balance' = call[c].read + 1
  BY DEF Charge
<1>5. PICK id : id = call[c].id
  OBVIOUS
<1>6. inst[r].kind = "leave" /\ id \in Effects(r)
  BY <1>1, <1>2, <1>5 DEF Account, PaysForLeave, Paying
<1>7. id \in LeaveEffects /\ id \in Ids /\ id # Null
  BY <1>6, LeaveRow, Constants DEF Effects
<1>8. LeaveEffects' = LeaveEffects /\ \A q \in Requests : Effects(q)' = Effects(q)
  BY <1>4, LeaveSame
<1>9. \A d \in InBetween \ {c} : call[d].id # id
  BY <1>1, <1>2, <1>6, <1>7, OwnHands DEF InBetween, Between, Domain, Effects
<1>10. c \in InBetween /\ InBetween' = InBetween \ {c}
  BY <1>1, <1>3 DEF InBetween, Between, Only, Goes
<1>11. Charged' = Charged \cup {id} /\ id \notin Charged
  <2>1. \A d \in InBetween' : call'[d] = call[d]
    BY <1>3, <1>10 DEF Only, InBetween
  <2> QED BY <1>5, <1>7, <1>8, <1>9, <1>10, <2>1 DEF Charged
<1>12. call[c].read = balance /\ Holders' = {}
  <2>1. c \in Holders
    BY <1>1 DEF Holders
  <2>2. call[c].read = balance /\ Holders \subseteq {c}
    BY <2>1 DEF Account, ReadingGood
  <2> QED BY <1>3, <2>2 DEF Holders, Only, Goes
<1>13. IsFiniteSet(Charged') /\ Cardinality(Charged') = Cardinality(Charged) + 1
  BY <1>11, FS_AddElement DEF Account
<1>14. balance' = Cardinality(Charged')
  BY <1>4, <1>12, <1>13 DEF Account
<1>15. PaysForLeave'
  BY <1>3, <1>4, <1>8 DEF PaysForLeave, Account, Only, Goes, Paying
<1> QED BY <1>12, <1>13, <1>14, <1>15 DEF Account, ReadingGood

\* A cancellation gives the day back ...
LEMMA AccountRelease ==
    ASSUME KeptInv, Calm, Account, NEW c \in Everyone, Release(c)
    PROVE  Account'
<1>1. TypeOK /\ CallOK /\ call[c] # Null /\ call[c] \in Call /\ call[c].at = "releasing"
  BY DEF KeptInv, OrderInv, TypeOK, CallOK, Release, At
<1>2. PICK r \in Requests : call[c].on = r
  BY <1>1 DEF Call
<1>3. Only(c) /\ Goes(c, "erasing")
  BY <1>1, KeptMoves DEF Release, Places, Domain
<1>4. UNCHANGED <<inst, row>> /\ balance' = IF call[c].read > 0 THEN call[c].read - 1 ELSE 0
  BY DEF Release
<1>5. PICK id : id = call[c].id
  OBVIOUS
<1>6. inst[r].kind = "leave" /\ id \in Effects(r)
  BY <1>1, <1>2, <1>5 DEF Account, PaysForLeave, Paying
<1>7. id \in LeaveEffects /\ id \in Ids /\ id # Null
  BY <1>6, LeaveRow, Constants DEF Effects
<1>8. LeaveEffects' = LeaveEffects /\ \A q \in Requests : Effects(q)' = Effects(q)
  BY <1>4, LeaveSame
<1>9. c \notin InBetween /\ \A d \in InBetween : call[d].id # id
  BY <1>1, <1>2, <1>6, <1>7, OwnHands DEF InBetween, Between, Domain, Effects
<1>10. InBetween' = InBetween \cup {c}
  BY <1>3 DEF InBetween, Between, Only, Goes
<1>11. Charged' = Charged \ {id} /\ id \in Charged
  <2>1. \A d \in InBetween : call'[d] = call[d]
    BY <1>3, <1>9 DEF Only, InBetween
  <2>2. call'[c].id = id
    BY <1>3, <1>5 DEF Goes
  <2> QED BY <1>7, <1>8, <1>9, <1>10, <2>1, <2>2 DEF Charged
<1>12. call[c].read = balance /\ Holders' = {}
  <2>1. c \in Holders
    BY <1>1 DEF Holders
  <2>2. call[c].read = balance /\ Holders \subseteq {c}
    BY <2>1 DEF Account, ReadingGood
  <2> QED BY <1>3, <2>2 DEF Holders, Only, Goes
<1>13. IsFiniteSet(Charged') /\ Cardinality(Charged') = Cardinality(Charged) - 1
  BY <1>11, FS_RemoveElement DEF Account
<1>14. Cardinality(Charged) # 0 /\ balance \in Nat
  BY <1>1, <1>11, FS_EmptySet DEF Account, TypeOK
<1>15. balance' = Cardinality(Charged')
  BY <1>4, <1>12, <1>13, <1>14 DEF Account
<1>16. PaysForLeave'
  BY <1>3, <1>4, <1>8 DEF PaysForLeave, Account, Only, Goes, Paying
<1> QED BY <1>12, <1>13, <1>15, <1>16 DEF Account, ReadingGood

\* ... and returns the leave afterwards, or rejects the overtime.
LEMMA AccountErase ==
    ASSUME KeptInv, Calm, Account, NEW c \in Everyone, Erase(c)
    PROVE  Account'
<1>1. TypeOK /\ CallOK /\ call[c] # Null /\ call[c] \in Call /\ call[c].at = "erasing"
  BY DEF KeptInv, OrderInv, TypeOK, CallOK, Erase, At
<1>2. PICK r \in Requests : call[c].on = r
  BY <1>1 DEF Call
<1>3. Only(c) /\ Goes(c, "unlinking")
  BY <1>1, KeptMoves DEF Erase, Places, Domain
<1>4. PICK id : id = call[c].id
  OBVIOUS
<1>5. /\ UNCHANGED <<inst, balance>>
      /\ row' = [row EXCEPT ![id].status =
                      IF inst[r].kind = "leave" THEN "returned" ELSE "rejected"]
  BY <1>2, <1>4 DEF Erase
<1>6. /\ \A n \in Ids \ {id} : row'[n] = row[n]
      /\ id \in Ids => row'[id].status # "approved"
  BY <1>1, <1>5 DEF TypeOK, Entity
<1>7. /\ \A q \in Requests : Effects(q)' = Effects(q) \ {id}
      /\ LeaveEffects' = LeaveEffects \ {id}
  BY <1>5, <1>6 DEF Effects, LeaveEffects
<1>8. c \in InBetween /\ InBetween' = InBetween \ {c}
  BY <1>1, <1>3 DEF InBetween, Between, Only, Goes
<1>9. Charged' = Charged
  <2>1. \A d \in InBetween' : call'[d] = call[d]
    BY <1>3, <1>8 DEF Only, InBetween
  <2> QED BY <1>4, <1>7, <1>8, <2>1 DEF Charged
<1>10. Holders' = Holders /\ \A d \in Holders : call'[d] = call[d]
  BY <1>1, <1>3 DEF Holders, Only, Goes
<1>11. ReadingGood'
  BY <1>5, <1>10 DEF ReadingGood, Account
<1>12. PaysForLeave'
  <2> SUFFICES ASSUME NEW q \in Requests, NEW d \in Everyone, call'[d] # Null, call'[d].on = q,
                      call'[d].at \in Paying
               PROVE  inst[q].kind = "leave" /\ call'[d].id \in Effects(q)'
    BY <1>5 DEF PaysForLeave
  <2>1. d # c /\ call'[d] = call[d]
    BY <1>3 DEF Only, Goes, Paying
  <2>2. inst[q].kind = "leave" /\ call[d].id \in Effects(q)
    BY <2>1 DEF PaysForLeave, Account
  <2>3. call[d].id # id
    <3> SUFFICES ASSUME call[d].id = id PROVE FALSE
      OBVIOUS
    <3>1. id \in Ids /\ id # Null /\ row[id].of = q
      BY <2>2, Constants DEF Effects
    <3>2. q = r
      BY <1>1, <1>2, <1>4, <3>1, KeptCall DEF Mine
    <3> QED BY <1>1, <1>2, <2>1, <3>1, <3>2, OwnHands DEF Paying, Domain
  <2> QED BY <1>7, <2>1, <2>2, <2>3
<1> QED BY <1>5, <1>9, <1>11, <1>12 DEF Account

\* An approved overtime is no leave: rejecting it, or not, does not touch the account.
LEMMA AccountOvertime ==
    ASSUME KeptInv, Account, NEW c \in Everyone, call[c] # Null, NEW r \in Requests,
           call[c].on = r, inst[r].kind # "leave", UNCHANGED <<inst, row, balance>>,
           Only(c),
           call[c].at \notin Paying,
           call'[c] = Null \/ call'[c].at \notin Paying,
           call'[c] = Null \/ call'[c].at \notin Between \/ call'[c].id \in Mine(r)
    PROVE  Account'
<1>1. LeaveEffects' = LeaveEffects /\ \A q \in Requests : Effects(q)' = Effects(q)
  BY LeaveSame
<1>2. Mine(r) \cap LeaveEffects = {}
  BY Constants DEF Mine, LeaveEffects, Effects
<1>3. call[c].id \in Mine(r)
  BY KeptCall
<1>4. \A id \in LeaveEffects :
        (\E d \in InBetween : call[d].id = id) <=> (\E d \in InBetween' : call'[d].id = id)
  BY <1>2, <1>3 DEF InBetween, Only
<1>5. Charged' = Charged
  BY <1>1, <1>4 DEF Charged
<1>6. Holders' = Holders /\ \A d \in Holders : call'[d] = call[d]
  BY DEF Holders, Only, Paying
<1>7. ReadingGood'
  BY <1>6 DEF ReadingGood, Account
<1>8. PaysForLeave'
  BY <1>1 DEF PaysForLeave, Account, Only
<1> QED BY <1>5, <1>7, <1>8 DEF Account

\* A cancellation takes up the leave that the request names.
LEMMA AccountUndo ==
    ASSUME KeptInv, Calm, Account, NEW c \in Everyone, UndoApproved(c)
    PROVE  Account'
<1>1. TypeOK /\ CallOK /\ call[c] # Null /\ call[c] \in Call /\ call[c].at = "undoing"
  BY DEF KeptInv, OrderInv, TypeOK, CallOK, UndoApproved, At
<1>2. PICK r \in Requests : call[c].on = r
  BY <1>1 DEF Call
<1>3. UNCHANGED <<inst, row, balance>> /\ Free(c)
  BY <1>1 DEF UndoApproved, tables, Free, Between, Paying
<1>4. CASE inst[r].kind = "advance"
  <2>1. Quiet
    BY <1>1, <1>2, <1>3, <1>4, KeptMoves, QuietMoves DEF UndoApproved, Ends, Between, Paying
  <2> QED BY <1>3, <2>1, AccountFrame
<1>5. CASE inst[r].kind # "advance"
  <2>1. PICK id \in Ids \cup {Null} : id = inst[r].entity
    BY <1>1 DEF TypeOK, Instance
  <2>2. PICK place : place = IF ~Integrated(r) THEN "cancelling"
                             ELSE IF row[id].status # "approved" THEN "unlinking"
                             ELSE IF inst[r].kind = "leave" THEN "freeing" ELSE "erasing"
    OBVIOUS
  <2>3. call' = [call EXCEPT ![c].seen = "approved", ![c].id = id, ![c].at = place]
    BY <1>2, <1>5, <2>1, <2>2 DEF UndoApproved
  <2>4. Only(c) /\ call'[c] # Null /\ call'[c].at = place /\ call'[c].on = r /\ call'[c].id = id
    <3>1. [call[c] EXCEPT !.seen = "approved", !.id = id, !.at = place] \in Call
      BY <1>1, <2>1, <2>2 DEF Call, Places, Domain, Status
    <3>2. Only(c) /\ call'[c] = [call[c] EXCEPT !.seen = "approved", !.id = id, !.at = place]
      BY <1>1, <2>3 DEF CallOK, Only
    <3> QED BY <1>1, <1>2, <3>1, <3>2, CallAssumption DEF Call
  <2>5. CASE place \in {"cancelling", "unlinking"}
    <3>1. Quiet
      BY <1>1, <1>3, <2>4, <2>5, QuietMoves DEF Between, Paying
    <3> QED BY <1>3, <3>1, AccountFrame
  <2>6. CASE place = "erasing"
    <3>1. inst[r].kind = "overtime"
      BY <1>1, <1>5, <2>2, <2>6 DEF TypeOK, Instance, Kinds
    <3>2. id \in Mine(r)
      BY <2>1 DEF KeptInv, Owned
    <3> QED BY <1>1, <1>2, <1>3, <2>4, <2>6, <3>1, <3>2, AccountOvertime DEF Paying
  <2>7. CASE place = "freeing"
    <3>1. inst[r].kind = "leave" /\ id \in Effects(r)
      <4>1. inst[r].kind = "leave" /\ id # Null /\ row[id].status = "approved"
        BY <2>1, <2>2, <2>7 DEF Integrated
      <4>2. id \in Mine(r)
        BY <2>1 DEF KeptInv, Owned
      <4> QED BY <4>1, <4>2 DEF Mine, Effects
    <3>2. LeaveEffects' = LeaveEffects /\ \A q \in Requests : Effects(q)' = Effects(q)
      BY <1>3, LeaveSame
    <3>3. InBetween' = InBetween /\ \A d \in InBetween : call'[d] = call[d]
      BY <1>1, <2>4, <2>7 DEF InBetween, Between, Only
    <3>4. Holders' = Holders /\ \A d \in Holders : call'[d] = call[d]
      BY <1>1, <2>4, <2>7 DEF Holders, Only
    <3>5. Charged' = Charged /\ ReadingGood'
      BY <1>3, <3>2, <3>3, <3>4 DEF Charged, ReadingGood, Account
    <3>6. PaysForLeave'
      <4> SUFFICES ASSUME NEW q \in Requests, NEW d \in Everyone, call'[d] # Null, call'[d].on = q,
                          call'[d].at \in Paying
                   PROVE  inst[q].kind = "leave" /\ call'[d].id \in Effects(q)
        BY <1>3, <3>2 DEF PaysForLeave
      <4>1. CASE d = c
        BY <2>4, <3>1, <4>1
      <4>2. CASE d # c
        BY <2>4, <4>2 DEF Only, PaysForLeave, Account
      <4> QED BY <4>1, <4>2
    <3> QED BY <1>3, <3>5, <3>6 DEF Account
  <2> QED BY <2>2, <2>5, <2>6, <2>7
<1> QED BY <1>4, <1>5

\* Payroll refuses to give overtime back.
LEMMA AccountRefuse ==
    ASSUME KeptInv, Calm, Account, NEW c \in Everyone, RefuseErase(c)
    PROVE  Account'
<1>1. CallOK /\ call[c] # Null /\ call[c] \in Call /\ call[c].at = "erasing"
  BY DEF KeptInv, OrderInv, TypeOK, CallOK, RefuseErase, At
<1>2. PICK r \in Requests : call[c].on = r
  BY <1>1 DEF Call
<1>3. UNCHANGED <<inst, row, balance>> /\ inst[r].kind = "overtime"
  BY <1>2 DEF RefuseErase, tables
<1>4. Only(c) /\ Ends(c)
  BY <1>1, KeptMoves DEF RefuseErase
<1> QED BY <1>1, <1>2, <1>3, <1>4, AccountOvertime DEF Ends, Paying, Between

\* Overtime that is found and approved is not counted either.
LEMMA AccountFind ==
    ASSUME KeptInv, Account, NEW c \in Everyone, FindOvertime(c)
    PROVE  Account'
<1>1. TypeOK /\ CallOK /\ call[c] # Null /\ call[c] \in Call /\ call[c].at = "finding"
  BY DEF KeptInv, OrderInv, TypeOK, CallOK, FindOvertime, At
<1>2. PICK r \in Requests : call[c].on = r
  BY <1>1 DEF Call
<1>3. UNCHANGED <<inst, balance>> /\ inst[r].kind = "overtime" /\ Free(c)
  BY <1>1, <1>2 DEF FindOvertime, Free, Between, Paying
<1>4. CASE Live(r) = {}
  <2>1. Quiet /\ UNCHANGED row
    BY <1>1, <1>2, <1>3, <1>4, KeptMoves, QuietMoves
       DEF FindOvertime, Goes, Places, Domain, Between, Paying
  <2> QED BY <1>3, <2>1, AccountFrame
<1>5. CASE Live(r) # {}
  <2>1. PICK id \in Live(r) :
           /\ row' = [row EXCEPT ![id].status = "approved"]
           /\ call' = [call EXCEPT ![c].id = id, ![c].at = "marking"]
    BY <1>2, <1>5 DEF FindOvertime
  <2>2. Only(c) /\ call'[c].at = "marking"
    BY <1>1, <2>1 DEF Only, CallOK, Call
  <2>3. Quiet
    BY <1>1, <1>3, <2>2, QuietMoves DEF Between, Paying
  <2>4. /\ id \in Ids
        /\ row[id].of = r /\ row'[id].of = r
        /\ row'[id].status = "approved"
        /\ \A n \in Ids \ {id} : row'[n] = row[n]
    BY <1>1, <2>1 DEF Live, TypeOK, Entity
  <2>5. \A q \in Requests : /\ Effects(q) \subseteq Effects(q)'
                            /\ q # r => Effects(q)' = Effects(q)
    BY <2>4 DEF Effects
  <2>6. \A q \in Requests : inst'[q].kind = inst[q].kind
    BY <1>3
  <2>7. LeaveEffects' = LeaveEffects
    <3>1. {q \in Requests : inst'[q].kind = "leave"} = {q \in Requests : inst[q].kind = "leave"}
      BY <2>6
    <3>2. \A q \in {p \in Requests : inst[p].kind = "leave"} : Effects(q)' = Effects(q)
      BY <1>3, <2>5
    <3> QED BY <3>1, <3>2 DEF LeaveEffects
  <2>8. balance' = balance
    BY <1>3
  <2>9. \A q \in Requests : Effects(q) \subseteq Effects(q)'
    BY <2>5
  <2> QED BY <2>3, <2>6, <2>7, <2>8, <2>9, AccountSame
<1> QED BY <1>4, <1>5

\* A call that stops with nothing left to write gives up what it has read at most.
LEMMA AccountStops ==
    ASSUME KeptInv, Account, NEW c \in Everyone, call[c] # Null, ~Unfinished(c),
           Only(c), Ends(c), UNCHANGED <<inst, row, balance>>
    PROVE  Account'
<1>1. CallOK
  BY DEF KeptInv, OrderInv, TypeOK, CallOK
<1>2. PICK r \in Requests : call[c].on = r
  BY <1>1 DEF CallOK, Call
<1>3. call'[c] = Null \/ call'[c].at \notin Between \cup Paying
  BY DEF Ends, Between, Paying
<1>4. CASE Free(c)
  <2>1. Quiet
    BY <1>1, <1>3, <1>4, QuietMoves
  <2> QED BY <2>1, AccountFrame
<1>5. CASE call[c].at = "erasing"
  <2>1. inst[r].kind # "leave"
    BY <1>2, <1>5 DEF Unfinished
  <2> QED BY <1>2, <1>3, <1>5, <2>1, AccountOvertime DEF Paying
<1>6. CASE call[c].at \in {"freeing", "releasing"}
  <2>1. LeaveEffects' = LeaveEffects /\ \A q \in Requests : Effects(q)' = Effects(q)
    BY LeaveSame
  <2>2. InBetween' = InBetween /\ \A d \in InBetween : call'[d] = call[d]
    BY <1>3, <1>6 DEF InBetween, Between, Only
  <2>3. Holders' = Holders \ {c} /\ \A d \in Holders \ {c} : call'[d] = call[d]
    BY <1>3 DEF Holders, Paying, Only
  <2>4. Charged' = Charged
    BY <2>1, <2>2 DEF Charged
  <2>5. ReadingGood'
    BY <2>3 DEF ReadingGood, Account
  <2>6. PaysForLeave'
    BY <1>3, <2>1 DEF PaysForLeave, Account, Only
  <2> QED BY <2>4, <2>5, <2>6 DEF Account
<1>7. Free(c) \/ call[c].at \in {"erasing", "freeing", "releasing"}
  BY DEF Unfinished, Free, Between, Paying
<1> QED BY <1>4, <1>5, <1>6, <1>7

\* A request that is created has no effect whose kind could matter.
LEMMA AccountCreated ==
    ASSUME KeptInv, Calm, Account, NEW r \in Requests, inst[r].status = "none",
           \A q \in Requests \ {r} : inst'[q] = inst[q],
           UNCHANGED <<row, balance>>, Quiet
    PROVE  Account'
<1>1. Effects(r) = {}
  BY DEF Calm, KeptInv, KeptUnlessHit, Sound
<1>2. \A q \in Requests : inst'[q].kind = inst[q].kind \/ Effects(q) = {}
  BY <1>1
<1> QED BY <1>2, AccountFrame

\* A call that ends, goes on, or begins anew does so without touching the balance,
\* unless it goes on to pay.
LEMMA QuietSteps ==
    ASSUME TypeOK, NEW c \in Everyone
    PROVE  /\ call[c] # Null /\ Free(c) =>
                 /\ Finish(c) => Quiet
                 /\ \A place \in Places \ (Between \cup Paying) :
                       (Goto(c, place) \/ GotoFresh(c, place)) => Quiet
           /\ \A r \in Requests, place \in Places \ (Between \cup Paying), s \in Steps \cup {Null} :
                 Occupy(c, r, place, s) => Quiet
<1>1. CallOK
  BY DEF TypeOK, CallOK
<1>2. ASSUME call[c] # Null, Free(c), Finish(c) PROVE Quiet
  BY <1>1, <1>2, KeptMoves, QuietMoves DEF Ends, Between, Paying
<1>3. ASSUME call[c] # Null, Free(c), NEW place \in Places \ (Between \cup Paying),
             Goto(c, place) \/ GotoFresh(c, place)
      PROVE  Quiet
  BY <1>1, <1>3, KeptMoves, QuietMoves DEF Goes
<1>4. ASSUME NEW r \in Requests, NEW place \in Places \ (Between \cup Paying),
             NEW s \in Steps \cup {Null}, Occupy(c, r, place, s)
      PROVE  Quiet
  BY <1>1, <1>4, KeptBegins, QuietMoves DEF Free
<1> QED BY <1>2, <1>3, <1>4

\* Writing another column of a request leaves its kind.
LEMMA KindSame ==
    ASSUME TypeOK, NEW r \in Requests, NEW s, NEW e,
           \/ inst' = inst
           \/ inst' = [inst EXCEPT ![r].status = s]
           \/ inst' = [inst EXCEPT ![r].staged = s]
           \/ inst' = [inst EXCEPT ![r].integration = s]
           \/ inst' = [inst EXCEPT ![r].integration = s, ![r].entity = e]
    PROVE  \A q \in Requests : inst'[q].kind = inst[q].kind
<1> SUFFICES ASSUME NEW q \in Requests PROVE inst'[q].kind = inst[q].kind
  OBVIOUS
<1>1. inst[q] \in Instance
  BY DEF TypeOK
<1>2. \/ inst'[q] = inst[q]
      \/ inst'[q] = [inst[q] EXCEPT !.status = s]
      \/ inst'[q] = [inst[q] EXCEPT !.staged = s]
      \/ inst'[q] = [inst[q] EXCEPT !.integration = s]
      \/ inst'[q] = [inst[q] EXCEPT !.integration = s, !.entity = e]
  BY DEF TypeOK
<1> QED BY <1>1, <1>2 DEF Instance

\* Every step keeps the account in order, as long as nothing irregular happens: one
\* action at a time.
LEMMA AccountStep == AccountInv /\ [Next]_vars => AccountInv'
<1> SUFFICES ASSUME AccountInv, [Next]_vars
             PROVE  AccountInv'
  OBVIOUS
<1> KeptInv /\ KeptInv' /\ TypeOK /\ CallOK
  BY KeptStep DEF AccountInv, KeptInv, OrderInv, TypeOK, CallOK
<1> SUFFICES ASSUME Calm' PROVE Account'
  BY DEF AccountInv
<1> Calm /\ Account
  <2>1. UNCHANGED hits \/ \A r \in Requests : hits[r] \subseteq hits'[r]
    BY KeptStep DEF OneRequest, AccountInv
  <2>2. Calm
    BY <2>1 DEF Calm
  <2> QED BY <2>2 DEF AccountInv
<1> \A c \in Everyone : call[c] # Null => call[c] \in Call /\ call[c].on \in Requests
  BY DEF CallOK, Call
<1> \A place : place \in Places \ (Between \cup Paying) <=>
                  place \in {"staging", "creating", "linking", "undoing", "unlinking", "cancelling",
                             "resetting", "claiming", "looking", "finding", "writing",
                             "marking", "submitting", "discarding", "approving", "rejecting", "unstaging",
                             "checking"}
  BY DEF Places, Domain, Between, Paying
<1>1. ASSUME NEW r \in Requests, NEW kind \in Kinds, CreateDraft(r, kind)
      PROVE  Account'
  <2>1. \A q \in Requests \ {r} : inst'[q] = inst[q]
    BY <1>1 DEF CreateDraft, TypeOK, Instance
  <2> QED BY <1>1, <2>1, AccountCreated DEF CreateDraft, Quiet
<1>2. ASSUME NEW c \in Callers, NEW r \in Requests, NEW kind \in Kinds, NEW n \in Submissions,
             CreateAndSubmit(c, r, kind, n)
      PROVE  Account'
  <2>1. \A q \in Requests \ {r} : inst'[q] = inst[q]
    BY <1>2 DEF CreateAndSubmit, TypeOK, Instance
  <2>2. Quiet
    BY <1>2, Constants, QuietSteps DEF CreateAndSubmit, Quiet
  <2> QED BY <1>2, <2>1, <2>2, AccountCreated DEF CreateAndSubmit
<1>3. ASSUME NEW c \in Callers, NEW r \in Requests,
             \/ BeginSubmit(c, r) \/ BeginDiscard(c, r) \/ BeginCancel(c, r) \/ BeginRetry(c, r)
      PROVE  Account'
  <2>1. Quiet
    BY <1>3, Constants, QuietSteps DEF BeginSubmit, BeginDiscard, BeginCancel, BeginRetry, Begin
  <2>2. UNCHANGED <<inst, row, balance>>
    BY <1>3 DEF BeginSubmit, BeginDiscard, BeginCancel, BeginRetry, tables
  <2> QED BY <2>1, <2>2, AccountFrame
<1>4. ASSUME NEW c \in Callers, NEW r \in Requests, NEW place \in {"approving", "rejecting"},
             BeginDecide(c, r, place)
      PROVE  Account'
  <2>1. PICK s \in Lowest(r) : Begin(c, r, place, s)
    BY <1>4 DEF BeginDecide
  <2>2. s \in Steps \cup {Null}
    BY DEF Lowest, Pending
  <2>3. Quiet
    BY <2>1, <2>2, Constants, QuietSteps DEF Begin
  <2>4. UNCHANGED <<inst, row, balance>>
    BY <1>4 DEF BeginDecide, tables
  <2> QED BY <2>3, <2>4, AccountFrame
<1>5. ASSUME NEW c \in Everyone,
             \/ \E n \in Submissions : Submit(c, n)
             \/ CheckConflict(c) \/ Discard(c) \/ LinkStaged(c) \/ Approve(c) \/ Reject(c)
             \/ Reset(c) \/ Claim(c) \/ Unlink(c) \/ Cancel(c) \/ Mark(c)
      PROVE  Account'
  <2>1. call[c] # Null /\ Free(c)
    BY <1>5 DEF Submit, CheckConflict, Discard, LinkStaged, Approve, Reject, Reset, Claim, Unlink,
                Cancel, Mark, At, Free, Between, Paying
  <2>2. Quiet
    BY <1>5, <2>1, QuietSteps
      
            DEF Submit, CheckConflict, Discard, LinkStaged, Approve, Reject, Reset, Claim, Unlink,
                Cancel, Mark
  <2>3. \A q \in Requests : inst'[q].kind = inst[q].kind
    <3>1. PICK r \in Requests : call[c].on = r
      BY <2>1
    <3>2. \E s, e :
             \/ inst' = inst
             \/ inst' = [inst EXCEPT ![r].status = s]
             \/ inst' = [inst EXCEPT ![r].staged = s]
             \/ inst' = [inst EXCEPT ![r].integration = s]
             \/ inst' = [inst EXCEPT ![r].integration = s, ![r].entity = e]
      BY <1>5, <3>1
         DEF Submit, CheckConflict, Discard, LinkStaged, Approve, Reject, Reset, Claim, Unlink,
             Cancel, Mark, tables
    <3> QED BY <3>2, KindSame
  <2>4. UNCHANGED <<row, balance>>
    BY <1>5
      
            DEF Submit, CheckConflict, Discard, LinkStaged, Approve, Reject, Reset, Claim, Unlink,
                Cancel, Mark, tables
  <2> QED BY <2>2, <2>3, <2>4, AccountFrame
<1>6. ASSUME NEW c \in Everyone, StageLeave(c) PROVE Account'
  <2>1. call[c] # Null /\ Free(c)
    BY <1>6 DEF StageLeave, At, Free, Between, Paying
  <2>2. PICK id \in Ids : id = NewId /\ row[id].status = "none"
    BY <1>6, NewIdType DEF StageLeave
  <2>3. /\ \A n \in Ids \ {id} : row'[n] = row[n]
        /\ row'[id].status = "pending"
    BY <1>6, <2>2 DEF StageLeave, TypeOK
  <2>4. Only(c) /\ call'[c] # Null /\ call'[c].at = "linking"
    <3>1. [call[c] EXCEPT !.id = id, !.at = "linking"] \in Call
      BY <2>1 DEF Call
    <3>2. Only(c) /\ call'[c] = [call[c] EXCEPT !.id = id, !.at = "linking"]
      BY <1>6, <2>2 DEF StageLeave, CallOK, Only
    <3> QED BY <2>1, <3>1, <3>2, CallAssumption DEF Call
  <2>5. Quiet
    BY <2>1, <2>4, QuietMoves DEF Between, Paying
  <2>6. UNCHANGED <<inst, balance>>
    BY <1>6 DEF StageLeave
  <2> QED BY <2>2, <2>3, <2>5, <2>6, AccountFrame
<1>7. ASSUME NEW c \in Everyone, UndoStaged(c) \/ Unstage(c) PROVE Account'
  <2>1. call[c] # Null /\ Free(c)
    BY <1>7 DEF UndoStaged, Unstage, At, Free, Between, Paying
  <2>2. PICK r \in Requests : call[c].on = r
    BY <2>1
  <2>3. /\ row' = RejectedStaged(r) \/ row' = row
        /\ UNCHANGED <<inst, balance>>
    BY <1>7, <2>2 DEF UndoStaged, Unstage
  <2>4. TablesOK /\ inst[r].staged \in Mine(r)
    BY DEF KeptInv, Owned, TypeOK, TablesOK
  <2>5. \A id \in Ids : \/ row'[id] = row[id]
                        \/ row[id].status # "approved" /\ row'[id].status # "approved"
    BY <2>3, <2>4, StagedWithdrawn
  <2>6. Quiet
    BY <1>7, <2>1, QuietSteps DEF UndoStaged, Unstage
  <2> QED BY <2>3, <2>5, <2>6, AccountFrame
<1>8. ASSUME NEW c \in Everyone, Check(c) \/ LookAdvance(c) PROVE Account'
  <2>1. call[c] # Null /\ Free(c)
    BY <1>8 DEF Check, LookAdvance, At, Free, Between, Paying
  <2>2. Quiet
    BY <1>8, <2>1, QuietSteps DEF Check, LookAdvance
  <2>3. UNCHANGED <<inst, row, balance>>
    BY <1>8 DEF Check, LookAdvance, tables
  <2> QED BY <2>2, <2>3, AccountFrame
<1>9. ASSUME NEW c \in Everyone, LookLeave(c) \/ LookOvertime(c) PROVE Account'
  <2>1. call[c] # Null /\ Free(c)
    BY <1>9 DEF LookLeave, LookOvertime, At, Free, Between, Paying
  <2>2. PICK r \in Requests : call[c].on = r
    BY <2>1
  <2>3. \/ Finish(c)
        \/ Goto(c, "finding")
        \/ \E id \in Ids \cup {Null} : call' = [call EXCEPT ![c].id = id, ![c].at = "writing"]
    BY <1>9, <2>2 DEF LookLeave, LookOvertime, TypeOK, Instance
  <2>4. Quiet
    <3>1. CASE Finish(c) \/ Goto(c, "finding")
      BY <2>1, <3>1, QuietSteps
    <3>2. ASSUME NEW id \in Ids \cup {Null},
                 call' = [call EXCEPT ![c].id = id, ![c].at = "writing"]
          PROVE  Quiet
      <4>1. [call[c] EXCEPT !.id = id, !.at = "writing"] \in Call
        BY <2>1 DEF Call
      <4>2. Only(c) /\ call'[c] = [call[c] EXCEPT !.id = id, !.at = "writing"]
        BY <3>2 DEF CallOK, Only
      <4>3. call'[c].at = "writing"
        BY <2>1, <4>2 DEF Call
      <4> QED BY <2>1, <4>2, <4>3, QuietMoves DEF Between, Paying
    <3> QED BY <2>3, <3>1, <3>2
  <2>5. UNCHANGED <<row, balance>> /\ (UNCHANGED inst \/ Failed(r))
    BY <1>9, <2>2 DEF LookLeave, LookOvertime, tables
  <2>6. \A q \in Requests : inst'[q].kind = inst[q].kind
    BY <2>5, KindSame DEF Failed
  <2> QED BY <2>4, <2>5, <2>6, AccountFrame
<1>10. ASSUME NEW c \in Everyone, Fail(c) PROVE Account'
  <2>1. PICK r \in Requests : call[c].on = r
    BY <1>10 DEF Fail
  <2>2. call[c].at \in {"looking", "finding", "writing"}
    <3>1. hits'[r] = {} /\ (IF Unfinished(c) THEN {"partial"} ELSE {}) \subseteq hits'[r]
      BY <1>10, <2>1, HitMoves DEF Fail, Calm
    <3> QED BY <1>10, <3>1 DEF Fail, Unfinished
  <2>3. Quiet
    BY <1>10, <2>2, QuietSteps DEF Fail, Free, Between, Paying
  <2>4. UNCHANGED <<row, balance>> /\ Failed(r)
    BY <1>10, <2>1 DEF Fail
  <2>5. \A q \in Requests : inst'[q].kind = inst[q].kind
    BY <2>4, KindSame DEF Failed
  <2> QED BY <2>3, <2>4, <2>5, AccountFrame
<1>11. ASSUME NEW c \in Everyone, Crash(c) \/ Abort(c) PROVE Account'
  <2>1. call[c] # Null
    BY <1>11 DEF Crash, Abort
  <2>2. PICK r \in Requests : call[c].on = r
    BY <2>1
  <2>3. ~Unfinished(c)
    <3>1. PICK what : Hit(r, what) /\ (Unfinished(c) => what # {})
      BY <1>11, <2>2 DEF Crash, Abort
    <3>2. what \subseteq hits'[r] /\ hits'[r] = {}
      BY <3>1, HitMoves DEF Calm
    <3> QED BY <3>1, <3>2
  <2>4. Only(c) /\ Ends(c)
    BY <1>11, <2>1, KeptMoves DEF Crash, Abort, CallOK, Only, Ends
  <2>5. UNCHANGED <<inst, row, balance>>
    BY <1>11 DEF Crash, Abort, tables
  <2> QED BY <2>1, <2>3, <2>4, <2>5, AccountStops
<1>12. CASE Start
  <2>1. Boot \in Everyone /\ Free(Boot)
    BY <1>12, Constants DEF Start, Free
  <2>2. UNCHANGED call \/ (Only(Boot) /\ call'[Boot].at = "checking")
    <3>1. UNCHANGED call \/ \E r \in Requests :
              call' = [call EXCEPT ![Boot] = Fresh(r, "checking", Incomplete \ {r})]
      BY <1>12 DEF Start, Incomplete
    <3> QED BY <2>1, <3>1 DEF CallOK, Only, Fresh
  <2>3. Quiet
    BY <2>1, <2>2, QuietMoves DEF Quiet, Between, Paying
  <2>4. UNCHANGED <<inst, row, balance>>
    BY <1>12 DEF Start, tables
  <2> QED BY <2>3, <2>4, AccountFrame
<1>13. CASE Deploy \/ UNCHANGED vars
  <2>1. Quiet /\ UNCHANGED <<inst, row, balance>>
    BY <1>13 DEF Deploy, vars, tables, Quiet
  <2> QED BY <2>1, AccountFrame
<1> QED
  BY <1>1, <1>2, <1>3, <1>4, <1>5, <1>6, <1>7, <1>8, <1>9, <1>10, <1>11, <1>12, <1>13, AccountUndo,
     AccountRelease, AccountErase, AccountRefuse, AccountFind, AccountWrite, AccountRead,
     AccountCharge
     DEF Next, Arrive, Progress

\* No leave has been charged at first.
LEMMA AccountInit == Init => AccountInv
<1> SUFFICES ASSUME Init PROVE AccountInv
  OBVIOUS
<1>1. \A c \in Everyone : call[c] = Null
  BY DEF Init
<1>2. Charged = {}
  BY DEF Init, Charged, LeaveEffects, Effects
<1>3. IsFiniteSet(Charged) /\ Cardinality(Charged) = 0 /\ balance = 0
  BY <1>2, FS_EmptySet DEF Init
<1>4. ReadingGood /\ PaysForLeave
  BY <1>1 DEF ReadingGood, Holders, PaysForLeave
<1> QED BY <1>3, <1>4, KeptInit DEF AccountInv, Account

\* Whenever nobody is at work and nothing irregular happened, the balance counts the
\* approved leave requests, each of them once.
THEOREM BalanceKept == Spec => []BalanceMatchesLeave
<1>1. AccountInv => BalanceMatchesLeave
  <2> SUFFICES ASSUME AccountInv, \A r \in Requests : hits[r] = {} /\ AtWork(r) = {}
               PROVE  balance = Cardinality(LeaveEffects)
    BY DEF BalanceMatchesLeave
  <2>1. InBetween = {}
    BY DEF InBetween, Between, AtWork, Domain, AccountInv, KeptInv, OrderInv, TypeOK, Call
  <2>2. Charged = LeaveEffects
    BY <2>1 DEF Charged
  <2> QED BY <2>2 DEF AccountInv, Calm, Account
<1> QED BY <1>1, AccountInit, AccountStep, PTL DEF Spec
=============================================================================
