-------------------------- MODULE Pagination_proofs --------------------------
(***************************************************************************)
(* What holds of the reading of a list for every set of objects, page      *)
(* size, limit and number of lists: nothing is missed, as long as no       *)
(* object leaves a window that is being read and the links are written     *)
(* so that parseNextLink finds them; and nothing is yielded twice, however *)
(* they are written, unless an object enters the window or the owner links *)
(* back to the first page.                                                 *)
(*                                                                         *)
(* Both follow from where the reading stands in the list of the moment:    *)
(* how many of its objects have been received.                             *)
(***************************************************************************)
EXTENDS Pagination, FiniteSetTheorems, TLAPS

-----------------------------------------------------------------------------
(* The inductive invariant.                                                *)

PollType ==
    [status : {"idle", "fetch", "yield", "done"}, req : Requests \cup {None},
     to : Nat \cup {None}, page : SUBSET (Items \X Nat), next : Requests \cup {None},
     got : [Items -> 0 .. 2], entered : BOOLEAN]

TypeOK ==
    /\ now \in Nat /\ updated \in [Items -> Nat] /\ seen \in [Items -> Nat]
    /\ since \in Nat \cup {None} /\ left \in BOOLEAN
    /\ poll \in PollType /\ cancelled \in BOOLEAN /\ back \in BOOLEAN

\* What is asked for: everything from where the client stands to a time that
\* has come, and links that continue the same request.
Asked ==
    /\ since # None => since <= now
    /\ Reading =>
        /\ poll.to \in Nat /\ poll.to <= now
        /\ since # None => since <= poll.to
        /\ poll.req \in Requests /\ poll.req.offset = 0
        /\ poll.req.from = Seconds(since)
        /\ poll.req.to \in {None, Seconds(poll.to)}
        /\ poll.next # None => poll.next = [poll.req EXCEPT !.offset = poll.next.offset]
    /\ poll.status = "fetch" => poll.page = {}

\* The object's place in the list is among the pages received.
Reached(i) ==
    \/ poll.next = None /\ poll.status = "yield"
    \/ poll.next # None /\ Position(poll.req, i) < poll.next.offset

\* An item goes stale only when its object is changed after the list was asked for.
Fresh ==
    Reading =>
        \A item \in poll.page :
            updated[item[1]] \in {0, item[2]} \/ updated[item[1]] >= poll.to

\* Nothing that leaves the window behind is missing: what the pages received
\* have covered was given, or is on the page.
Covered ==
    Reading /\ ~ left =>
        \A i \in Window(poll.req) :
            updated[i] < poll.to /\ Reached(i) =>
                seen[i] = updated[i] \/ <<i, updated[i]>> \in poll.page

MissedInv == TypeOK /\ Asked /\ Fresh /\ Covered /\ NothingMissed

\* The objects of the page.
OnPage(i) == \E item \in poll.page : item[1] = i

\* What was given, or is on the page, lies in the part of the list received,
\* and no object is on the page that was given before.
Once ==
    /\ Reading => \A p, q \in poll.page : p[1] = q[1] => p = q
    /\ Reading /\ ~ poll.entered /\ ~ back =>
        \A i \in Items :
            /\ OnPage(i) => poll.got[i] = 0
            /\ (poll.got[i] > 0 \/ OnPage(i)) /\ i \in Window(poll.req) => Reached(i)

RepeatedInv == TypeOK /\ Asked /\ Once /\ RepeatedOnlyAfterGrowth

-----------------------------------------------------------------------------
(* Times and places.                                                       *)

\* Rounding to seconds never goes past the time rounded.
LEMMA SecondsBefore ==
    ASSUME NEW t \in Nat
    PROVE  Seconds(t) \in Nat /\ Seconds(t) <= t
<1>1. t # None
  BY NoneAssumption
<1>2. TicksPerSecond \in Nat \ {0}
  BY SizesAssumption
<1>3. t \div TicksPerSecond \in Nat /\ (t \div TicksPerSecond) * TicksPerSecond <= t
  BY <1>2
<1>4. QED  BY <1>1, <1>2, <1>3 DEF Seconds

\* A place in a list is a number below its length, and does not fall when
\* the list grows.
LEMMA Places ==
    ASSUME NEW V, NEW W, V \subseteq W, W \subseteq Items, NEW i \in Items
    PROVE  /\ Cardinality(W) \in Nat
           /\ Cardinality({j \in V : j < i}) \in Nat
           /\ Cardinality({j \in W : j < i}) \in Nat
           /\ Cardinality({j \in V : j < i}) <= Cardinality({j \in W : j < i})
           /\ i \in W => Cardinality({j \in W : j < i}) < Cardinality(W)
<1> DEFINE v == {j \in V : j < i}
           w == {j \in W : j < i}
<1>1. IsFiniteSet(W) /\ Cardinality(W) \in Nat
  BY SizesAssumption, FS_Subset, FS_CardinalityType
<1>2. w \in SUBSET W /\ v \in SUBSET w
  OBVIOUS
<1>3. IsFiniteSet(w) /\ Cardinality(w) <= Cardinality(W)
      /\ (Cardinality(W) = Cardinality(w) => W = w)
  BY <1>1, <1>2, FS_Subset
<1>4. IsFiniteSet(v) /\ Cardinality(v) <= Cardinality(w)
  BY <1>2, <1>3, FS_Subset
<1>5. Cardinality(w) \in Nat /\ Cardinality(v) \in Nat
  BY <1>3, <1>4, FS_CardinalityType
<1>6. i \in W => W # w
  BY SizesAssumption
<1>7. QED  BY <1>1, <1>3, <1>4, <1>5, <1>6

\* The offset has no part in what a request selects.
LEMMA SameWindow ==
    ASSUME NEW req \in Requests, NEW k \in Nat, NEW i
    PROVE  /\ Window([req EXCEPT !.offset = k]) = Window(req)
           /\ Position([req EXCEPT !.offset = k], i) = Position(req, i)
<1>1. Window([req EXCEPT !.offset = k]) = Window(req)
  BY DEF Window, InWindow, Selects, Requests
<1>2. QED  BY <1>1 DEF Position

\* The link of a page is found when it is written without a comma.
LEMMA LinkFound ==
    ASSUME NEW url, NEW form
    PROVE  /\ ParseNextLink(<< >>) = None
           /\ ParseNextLink(<< [rel |-> "next", url |-> url, form |-> form] >>) =
                 IF form # "comma" THEN url ELSE None
<1>1. ParseNextLink(<< >>) = None
  BY DEF ParseNextLink
<1> DEFINE links == << [rel |-> "next", url |-> url, form |-> form] >>
           next == {n \in DOMAIN links : links[n].rel = "next" /\ links[n].form # "comma"}
<1>2. next = IF form # "comma" THEN {1} ELSE {}
  OBVIOUS
<1>3. ParseNextLink(links) =
        IF next = {} THEN None ELSE links[CHOOSE n \in next : \A m \in next : n <= m].url
  BY DEF ParseNextLink
<1>4. form # "comma" => (CHOOSE n \in next : \A m \in next : n <= m) = 1
  <2> SUFFICES ASSUME form # "comma" PROVE (CHOOSE n \in next : \A m \in next : n <= m) = 1
    OBVIOUS
  <2>1. next = {1}
    BY <1>2
  <2> HIDE DEF next
  <2>2. \E n \in next : \A m \in next : n <= m
    BY <2>1
  <2>3. QED  BY <2>1, <2>2
<1>5. links[1].url = url
  OBVIOUS
<1>6. QED  BY <1>1, <1>2, <1>3, <1>4, <1>5

\* What a fetch brings: the objects of the list from where the request
\* started to where the next one does, or to the list's end.
LEMMA Fetched ==
    ASSUME TypeOK, Asked, Fetch
    PROVE  \E start, after \in Nat :
             LET page == {i \in Window(poll.req) : /\ Position(poll.req, i) >= start
                                                  /\ Position(poll.req, i) < after}
             IN  /\ start = (IF poll.next = None THEN 0 ELSE poll.next.offset)
                 /\ start <= after
                 /\ \/ poll'.next \in {None, [poll.req EXCEPT !.offset = after]}
                    \/ poll'.next = [poll.req EXCEPT !.offset = 0] /\ back'
                 /\ poll' = [poll EXCEPT !.status = "yield", !.next = poll'.next,
                                         !.page = {<<i, updated[i]>> : i \in page}]
                 /\ "comma" \notin LinkForms /\ poll'.next = None =>
                        Cardinality(Window(poll.req)) <= after
<1>1. Reading /\ poll.req \in Requests /\ poll.req.offset = 0
  BY DEF Fetch, Reading, Asked
<1> DEFINE asked == IF poll.next = None THEN poll.req ELSE poll.next
           start == IF poll.next = None THEN 0 ELSE poll.next.offset
           size == IF asked.limit = 0 \/ asked.limit > PageSize THEN PageSize ELSE asked.limit
           after == asked.offset + size
           page == {i \in Window(poll.req) : /\ Position(poll.req, i) >= start
                                            /\ Position(poll.req, i) < after}
<1>2. asked \in Requests /\ start \in Nat /\ asked.offset = start
  BY <1>1 DEF TypeOK, PollType, Requests
<1>3. after \in Nat /\ start <= after
  BY <1>2, SizesAssumption DEF Requests
<1>4. poll.next # None => asked = [poll.req EXCEPT !.offset = start]
  BY <1>1 DEF Asked
<1>5. asked = [poll.req EXCEPT !.offset = start]
  BY <1>1, <1>4 DEF Requests
<1>6. /\ Window(asked) = Window(poll.req)
      /\ \A i : Position(asked, i) = Position(poll.req, i)
  BY <1>1, <1>2, <1>5, SameWindow
<1>8. PICK form \in LinkForms :
        /\ poll' = [poll EXCEPT !.status = "yield", !.page = Serve(asked, form).items,
                                !.next = ParseNextLink(Serve(asked, form).links)]
        /\ back' = (back \/ form = "back")
  BY DEF Fetch
<1>9. Serve(asked, form).items = {<<i, updated[i]>> : i \in page}
  BY <1>2, <1>6 DEF Serve
<1> DEFINE to == IF form = "back" THEN 0 ELSE after
<1>10. Serve(asked, form).links =
         IF form = "back" \/ after < Cardinality(Window(poll.req))
         THEN << [rel |-> "next", url |-> [poll.req EXCEPT !.offset = to], form |-> form] >>
         ELSE << >>
  <2>1. [asked EXCEPT !.offset = to] = [poll.req EXCEPT !.offset = to]
    BY <1>1, <1>5 DEF Requests
  <2>2. QED  BY <1>6, <2>1 DEF Serve
<1> DEFINE link == ParseNextLink(Serve(asked, form).links)
<1>11. /\ link \in {None, [poll.req EXCEPT !.offset = to]}
       /\ form # "comma" /\ after < Cardinality(Window(poll.req)) => link # None
  <2>1. [poll.req EXCEPT !.offset = to] \in Requests
    BY <1>1, <1>3 DEF Requests
  <2> HIDE DEF to
  <2>2. QED  BY <1>10, <2>1, LinkFound, NoneAssumption
<1>12. poll' = [poll EXCEPT !.status = "yield", !.page = {<<i, updated[i]>> : i \in page},
                            !.next = link]
  BY <1>8, <1>9
<1> HIDE DEF asked, start, size, after, page, link
<1>13. /\ poll'.next = link
       /\ \/ link \in {None, [poll.req EXCEPT !.offset = after]}
          \/ link = [poll.req EXCEPT !.offset = 0] /\ back'
  <2>1. poll'.next = link
    BY <1>12 DEF TypeOK, PollType
  <2>2. QED  BY <1>8, <1>11, <2>1
<1>14. "comma" \notin LinkForms /\ link = None => Cardinality(Window(poll.req)) <= after
  <2>1. Cardinality(Window(poll.req)) \in Nat
    BY SizesAssumption, FS_Subset, FS_CardinalityType DEF Window
  <2>2. QED  BY <1>3, <1>8, <1>11, <2>1
<1>15. QED
  BY <1>2, <1>3, <1>12, <1>13, <1>14 DEF start, page

-----------------------------------------------------------------------------
(* Types, and what is asked for.                                           *)

\* A client that reads nothing, after a list or before one.
LEMMA IdleType ==
    ASSUME NEW status \in {"idle", "done"}
    PROVE  /\ [Idle EXCEPT !.status = status] \in PollType
           /\ [Idle EXCEPT !.status = status].status = status
           /\ [Idle EXCEPT !.status = status].page = {}
           /\ Idle \in PollType /\ Idle.status = "idle" /\ Idle.page = {}
<1>1. [i \in Items |-> 0] \in [Items -> 0 .. 2]
  OBVIOUS
<1>2. QED  BY <1>1 DEF Idle, PollType

\* Initially the types hold and no list is being read.
LEMMA InitTypes ==
    ASSUME Init
    PROVE  TypeOK /\ Asked /\ ~ Reading /\ poll = Idle
<1>1. /\ Idle \in PollType /\ Idle.status = "idle" /\ Idle.page = {}
  BY IdleType
<1>2. TicksPerSecond \in Nat
  BY SizesAssumption
<1>3. QED  BY <1>1, <1>2 DEF Init, TypeOK, Asked, Reading

\* Whoever changes an object while a list is read notes only that something
\* entered its window.
LEMMA ChangeTypes ==
    ASSUME TypeOK, NEW i \in Items, NEW time \in Nat, Change(i, time)
    PROVE  /\ updated' \in [Items -> Nat] /\ left' \in BOOLEAN
           /\ poll' = [poll EXCEPT !.entered = poll'.entered]
           /\ poll'.entered \in BOOLEAN
<1>1. updated' \in [Items -> Nat] /\ left' \in BOOLEAN
  BY DEF Change, TypeOK
<1>2. QED  BY DEF Change, TypeOK, PollType

\* A fetched page holds objects of the owner, and its next link asks for the same
\* list further on.
LEMMA FetchTypes ==
    ASSUME TypeOK, Asked, Fetch
    PROVE  /\ poll' = [poll EXCEPT !.status = "yield", !.page = poll'.page, !.next = poll'.next]
           /\ poll'.page \subseteq Items \X Nat
           /\ poll'.next \in Requests \cup {None}
           /\ poll'.next # None => poll'.next = [poll.req EXCEPT !.offset = poll'.next.offset]
<1>1. PICK start \in Nat, after \in Nat :
        LET page == {i \in Window(poll.req) : /\ Position(poll.req, i) >= start
                                             /\ Position(poll.req, i) < after}
        IN  /\ \/ poll'.next \in {None, [poll.req EXCEPT !.offset = after]}
               \/ poll'.next = [poll.req EXCEPT !.offset = 0] /\ back'
            /\ poll' = [poll EXCEPT !.status = "yield", !.next = poll'.next,
                                    !.page = {<<i, updated[i]>> : i \in page}]
  BY Fetched
<1>2. poll.req \in Requests
  BY DEF Fetch, Reading, Asked
<1>3. poll'.next \in Requests \cup {None}
      /\ (poll'.next # None => poll'.next = [poll.req EXCEPT !.offset = poll'.next.offset])
  BY <1>1, <1>2 DEF Requests
<1> DEFINE items == {<<i, updated[i]>> :
                       i \in {i \in Window(poll.req) : /\ Position(poll.req, i) >= start
                                                      /\ Position(poll.req, i) < after}}
<1>4. items \subseteq Items \X Nat
  BY DEF TypeOK, Window
<1>5. poll' = [poll EXCEPT !.status = "yield", !.next = poll'.next, !.page = items]
  BY <1>1
<1> HIDE DEF items
<1>6. poll'.page = items
  BY <1>5 DEF TypeOK, PollType
<1>7. QED  BY <1>3, <1>4, <1>5, <1>6 DEF TypeOK, PollType

\* The types are kept, and so is what a list was asked for.
LEMMA TypesAndAsked ==
    ASSUME TypeOK, Asked, [Next]_vars
    PROVE  TypeOK' /\ Asked'
<1>0. cancelled' \in BOOLEAN /\ back' \in BOOLEAN
  BY DEF TypeOK, Next, Tick, Cancel, UpdateObject, RemoveObject, Change, StartPoll, Fetch,
     FetchFails, Yield, Break, EndOfPage, Forget, list, vars
<1>1. CASE Tick \/ Cancel
  BY <1>0, <1>1 DEF Tick, Cancel, list, TypeOK, Asked, Reading
<1>2. ASSUME NEW i \in Items, UpdateObject(i) \/ RemoveObject(i)
      PROVE  TypeOK' /\ Asked'
  <2>1. PICK time \in Nat : Change(i, time)
    BY <1>2 DEF UpdateObject, RemoveObject, TypeOK
  <2>2. /\ updated' \in [Items -> Nat] /\ left' \in BOOLEAN
        /\ poll' = [poll EXCEPT !.entered = poll'.entered]
        /\ poll'.entered \in BOOLEAN
    BY <2>1, ChangeTypes
  <2>3. UNCHANGED <<now, since, polls, seen>>
    BY <2>1 DEF Change
  <2>4. QED  BY <1>0, <2>2, <2>3 DEF TypeOK, PollType, Asked, Reading
<1>3. CASE StartPoll
  <2>1. PICK limit \in Limits, to \in {now, None} :
          poll' = [Idle EXCEPT !.status = "fetch", !.to = now, !.req = Query(since, to, limit)]
    BY <1>3 DEF StartPoll
  <2>2. UNCHANGED <<now, updated, since, seen, left>>
    BY <1>3 DEF StartPoll
  <2>3. now # None /\ Seconds(None) = None /\ Seconds(now) \in Nat
        /\ (since # None => Seconds(since) \in Nat)
    BY NoneAssumption, SecondsBefore DEF TypeOK, Seconds
  <2>4. Query(since, to, limit) \in Requests
        /\ Query(since, to, limit).from = Seconds(since)
        /\ Query(since, to, limit).to \in {None, Seconds(now)}
        /\ Query(since, to, limit).offset = 0
    BY <2>1, <2>3, SizesAssumption DEF Query, Requests, Seconds, TypeOK
  <2> DEFINE q == Query(since, to, limit)
  <2>5. poll' = [status |-> "fetch", req |-> q, to |-> now, page |-> {}, next |-> None,
                 got |-> [i \in Items |-> 0], entered |-> FALSE]
    BY <2>1 DEF Idle
  <2> HIDE DEF q
  <2>6. TypeOK'
    <3>1. poll' \in PollType
      BY <2>4, <2>5 DEF PollType, TypeOK, q
    <3>2. QED  BY <1>0, <2>2, <3>1 DEF TypeOK
  <2>7. Asked'
    BY <2>2, <2>4, <2>5 DEF Asked, TypeOK, Reading, q
  <2>8. QED  BY <2>6, <2>7
<1>4. CASE Fetch
  <2>1. /\ poll' = [poll EXCEPT !.status = "yield", !.page = poll'.page, !.next = poll'.next]
        /\ poll'.page \subseteq Items \X Nat
        /\ poll'.next \in Requests \cup {None}
        /\ poll'.next # None => poll'.next = [poll.req EXCEPT !.offset = poll'.next.offset]
    BY <1>4, FetchTypes
  <2>2. UNCHANGED <<now, updated, since, polls, seen, left>> /\ Reading
    BY <1>4 DEF Fetch, Reading
  <2>3. QED  BY <1>0, <2>1, <2>2 DEF TypeOK, PollType, Asked, Reading
<1>5. CASE FetchFails \/ Break
  <2>1. poll' = Idle /\ UNCHANGED <<now, updated, since, left>>
    BY <1>5 DEF FetchFails, Break
  <2>2. seen' \in [Items -> Nat]
    BY <1>5 DEF FetchFails, Break, Given, TypeOK, PollType
  <2>3. QED  BY <1>0, <2>1, <2>2 DEF TypeOK, PollType, Asked, Reading, Idle
<1>6. CASE Yield
  <2>1. PICK item \in poll.page :
          /\ seen' = [seen EXCEPT ![item[1]] = item[2]]
          /\ poll' = [poll EXCEPT !.page = @ \ {item},
                                  !.got[item[1]] = IF @ = 2 THEN 2 ELSE @ + 1]
    BY <1>6 DEF Yield, Given
  <2>2. item[1] \in Items /\ item[2] \in Nat
    BY DEF TypeOK, PollType
  <2>3. seen' \in [Items -> Nat]
    BY <2>1, <2>2 DEF TypeOK
  <2>4. poll' \in PollType
    <3>1. poll.got[item[1]] \in 0 .. 2
      BY <2>2 DEF TypeOK, PollType
    <3>2. (IF poll.got[item[1]] = 2 THEN 2 ELSE poll.got[item[1]] + 1) \in 0 .. 2
      BY <3>1
    <3>3. poll.page \ {item} \subseteq Items \X Nat
      BY DEF TypeOK, PollType
    <3>4. QED  BY <2>1, <2>2, <3>2, <3>3 DEF TypeOK, PollType
  <2>5. poll' = [poll EXCEPT !.page = poll'.page, !.got = poll'.got]
    BY <2>1 DEF TypeOK, PollType
  <2>6. UNCHANGED <<now, updated, since, polls, left>> /\ poll.status = "yield"
    BY <1>6 DEF Yield, Given
  <2>7. QED  BY <1>0, <2>3, <2>4, <2>5, <2>6 DEF TypeOK, PollType, Asked, Reading
<1>7. CASE EndOfPage
  <2>1. UNCHANGED <<now, updated, polls, seen, left>> /\ Reading /\ poll.page = {}
    BY <1>7 DEF EndOfPage, Reading
  <2>2. CASE poll' = [poll EXCEPT !.status = "fetch"] /\ UNCHANGED since
    BY <1>0, <2>1, <2>2 DEF TypeOK, PollType, Asked, Reading
  <2>3. CASE poll' = [Idle EXCEPT !.status = "done"] /\ since' = poll.to
    <3>1. poll' \in PollType /\ poll'.status = "done" /\ poll'.page = {}
      BY <2>3, IdleType
    <3>2. poll.to \in Nat /\ poll.to <= now
      BY <2>1 DEF Asked
    <3>3. QED  BY <1>0, <2>1, <2>3, <3>1, <3>2 DEF TypeOK, Asked, Reading
  <2>4. QED  BY <1>7, <2>2, <2>3 DEF EndOfPage
<1>8. CASE UNCHANGED vars
  BY <1>8 DEF vars, list, TypeOK, Asked, Reading
<1>9. QED
  BY <1>1, <1>2, <1>3, <1>4, <1>5, <1>6, <1>7, <1>8 DEF Next

-----------------------------------------------------------------------------
(* The list changes under the reader.                                      *)

\* While no object changes, the list and its order stay as they are.
LEMMA SameList ==
    ASSUME UNCHANGED updated, poll'.req = poll.req
    PROVE  /\ Window(poll.req)' = Window(poll.req)
           /\ \A i : Position(poll.req, i)' = Position(poll.req, i)
<1>1. Window(poll.req)' = Window(poll.req)
  BY DEF Window, InWindow, Selects
<1>2. QED  BY <1>1 DEF Position

\* An object that changes joins the list, stays in it or leaves it, and moves
\* the objects behind it one way only.
LEMMA ChangedList ==
    ASSUME TypeOK, Reading, NEW i \in Items, NEW time \in Nat, Change(i, time)
    PROVE  /\ Window(poll.req)' = IF Selects(poll.req, time) THEN Window(poll.req) \cup {i}
                                  ELSE Window(poll.req) \ {i}
           /\ ~ left' => ~ left /\ Window(poll.req) \subseteq Window(poll.req)'
           /\ ~ poll'.entered =>
                 ~ poll.entered /\ Window(poll.req)' \subseteq Window(poll.req)
           /\ Window(poll.req) \subseteq Window(poll.req)' =>
                 \A j \in Items : Position(poll.req, j) <= Position(poll.req, j)'
           /\ Window(poll.req)' \subseteq Window(poll.req) =>
                 \A j \in Items : Position(poll.req, j)' <= Position(poll.req, j)
           /\ \A j \in Items : /\ Position(poll.req, j) \in Nat
                               /\ Position(poll.req, j)' \in Nat
<1> DEFINE req == poll.req
<1>1. poll' = [poll EXCEPT !.entered = poll'.entered]
  BY ChangeTypes
<1>2. req' = req
  BY <1>1 DEF TypeOK, PollType
<1>3. updated' = [updated EXCEPT ![i] = time]
  BY DEF Change
<1>4. \A j \in Items : InWindow(req, j)' <=>
                        IF j = i THEN Selects(req, time) ELSE InWindow(req, j)
  BY <1>2, <1>3 DEF InWindow, Selects, TypeOK
<1>5. Window(req)' = IF Selects(req, time) THEN Window(req) \cup {i} ELSE Window(req) \ {i}
  BY <1>4 DEF Window
<1>6. left' = (left \/ (InWindow(req, i) /\ ~ Selects(req, time)))
  BY DEF Change
<1>7. poll'.entered = (poll.entered \/ (~ InWindow(req, i) /\ Selects(req, time)))
  BY DEF Change, TypeOK, PollType
<1>8. Window(req) \subseteq Items /\ Window(req)' \subseteq Items
  BY DEF Window
<1>9. i \in Window(req) <=> InWindow(req, i)
  BY DEF Window
<1>10. \A j : /\ Position(req, j) = Cardinality({k \in Window(req) : k < j})
             /\ Position(req, j)' = Cardinality({k \in Window(req)' : k < j})
  BY <1>2 DEF Position
<1> HIDE DEF req
<1>11. ASSUME NEW V, NEW W, V \subseteq W, W \subseteq Items, NEW j \in Items
       PROVE  /\ Cardinality({k \in V : k < j}) <= Cardinality({k \in W : k < j})
              /\ Cardinality({k \in W : k < j}) \in Nat
  BY <1>11, Places
<1>12. ASSUME NEW j \in Items
       PROVE  /\ Position(req, j) \in Nat /\ Position(req, j)' \in Nat
              /\ Window(req) \subseteq Window(req)' => Position(req, j) <= Position(req, j)'
              /\ Window(req)' \subseteq Window(req) => Position(req, j)' <= Position(req, j)
  <2> DEFINE before == {k \in Window(req) : k < j}
             after == {k \in Window(req)' : k < j}
  <2>1. Cardinality(before) \in Nat /\ Cardinality(after) \in Nat
    BY <1>8, <1>11
  <2>2. Window(req) \subseteq Window(req)' => Cardinality(before) <= Cardinality(after)
    BY <1>8, <1>11
  <2>3. Window(req)' \subseteq Window(req) => Cardinality(after) <= Cardinality(before)
    BY <1>8, <1>11
  <2>4. Position(req, j) = Cardinality(before) /\ Position(req, j)' = Cardinality(after)
    BY <1>10
  <2>5. QED  BY <2>1, <2>2, <2>3, <2>4
<1>13. ~ left' => ~ left /\ Window(req) \subseteq Window(req)'
  BY <1>5, <1>6, <1>9
<1>14. ~ poll'.entered => ~ poll.entered /\ Window(req)' \subseteq Window(req)
  BY <1>5, <1>7, <1>9
<1>15. QED  BY <1>5, <1>12, <1>13, <1>14 DEF req

-----------------------------------------------------------------------------
(* Nothing is missed.                                                      *)

\* What a changed object holds was not promised yet.
LEMMA ChangeMisses ==
    ASSUME MissedInv, NEW i \in Items, UpdateObject(i) \/ RemoveObject(i)
    PROVE  Fresh' /\ Covered' /\ NothingMissed'
<1>1. PICK time \in {0, now} : Change(i, time)
  BY DEF UpdateObject, RemoveObject
<1>2. time \in Nat
  BY DEF MissedInv, TypeOK
<1>3. poll' = [poll EXCEPT !.entered = poll'.entered] /\ poll'.entered \in BOOLEAN
      /\ updated' \in [Items -> Nat]
  BY <1>1, <1>2, ChangeTypes DEF MissedInv
<1>4. /\ updated' = [updated EXCEPT ![i] = time]
      /\ UNCHANGED <<now, since, polls, seen>>
  BY <1>1 DEF Change
<1>5. /\ poll'.status = poll.status /\ poll'.req = poll.req /\ poll'.to = poll.to
      /\ poll'.page = poll.page /\ poll'.next = poll.next
  BY <1>3 DEF MissedInv, TypeOK, PollType
<1>6. Fresh'
  <2> SUFFICES ASSUME Reading', NEW item \in poll'.page
               PROVE  (updated[item[1]] \in {0, item[2]} \/ updated[item[1]] >= poll.to)'
    BY DEF Fresh
  <2>1. Reading /\ item \in poll.page /\ item[1] \in Items
    BY <1>5 DEF Reading, MissedInv, TypeOK, PollType
  <2>2. updated[item[1]] \in {0, item[2]} \/ updated[item[1]] >= poll.to
    BY <2>1 DEF MissedInv, Fresh
  <2>3. poll.to \in Nat /\ poll.to <= now
    BY <2>1 DEF MissedInv, Asked
  <2>4. QED  BY <1>1, <1>4, <1>5, <2>1, <2>2, <2>3 DEF MissedInv, TypeOK
<1>7. Covered'
  <2> SUFFICES ASSUME Reading', ~ left', NEW j \in Window(poll.req)',
                      updated'[j] < poll'.to, Reached(j)'
               PROVE  seen'[j] = updated'[j] \/ <<j, updated'[j]>> \in poll'.page
    BY DEF Covered
  <2>1. Reading /\ j \in Items
    BY <1>5 DEF Reading, Window
  <2>2. /\ ~ left /\ Window(poll.req) \subseteq Window(poll.req)'
        /\ Window(poll.req)' \subseteq Window(poll.req) \cup {i}
        /\ Position(poll.req, j) <= Position(poll.req, j)'
        /\ Position(poll.req, j) \in Nat /\ Position(poll.req, j)' \in Nat
    BY <1>1, <1>2, <2>1, ChangedList DEF MissedInv
  <2>3. poll.to \in Nat /\ poll.to <= now /\ now \in Nat
    BY <2>1 DEF MissedInv, Asked, TypeOK
  <2>4. j # i
    <3>1. updated'[j] # 0
      BY DEF Window, InWindow, Selects
    <3>2. QED  BY <1>1, <1>4, <1>5, <2>3, <3>1 DEF MissedInv, TypeOK
  <2>5. j \in Window(poll.req) /\ updated'[j] = updated[j] /\ updated[j] < poll.to
    BY <1>4, <1>5, <2>2, <2>4 DEF MissedInv, TypeOK
  <2>6. Reached(j)
    <3>1. poll.next # None => poll.next.offset \in Nat
      BY DEF MissedInv, TypeOK, PollType, Requests
    <3>2. QED  BY <1>5, <2>2, <3>1 DEF Reached
  <2>7. QED  BY <1>4, <1>5, <2>1, <2>2, <2>5, <2>6 DEF MissedInv, Covered
<1>8. NothingMissed'
  <2> SUFFICES ASSUME ~ left', since' # None, NEW j \in Items,
                      updated'[j] # 0, updated'[j] < Seconds(since)'
               PROVE  seen'[j] = updated'[j]
    BY DEF NothingMissed
  <2>1. Seconds(since)' = Seconds(since)
    BY <1>4 DEF Seconds
  <2>2. since \in Nat /\ since <= now /\ now \in Nat
    BY <1>4 DEF MissedInv, TypeOK, Asked
  <2>3. Seconds(since) \in Nat /\ Seconds(since) <= now
    BY <2>2, SecondsBefore
  <2>4. j # i
    BY <1>1, <1>4, <2>1, <2>2, <2>3 DEF MissedInv, TypeOK
  <2>5. ~ left
    BY <1>1 DEF Change
  <2>6. QED  BY <1>4, <2>1, <2>4, <2>5 DEF MissedInv, TypeOK, NothingMissed
<1>9. QED  BY <1>6, <1>7, <1>8

\* An item given is the object's current version, or the object has changed
\* since the list was asked for.
LEMMA GivenIsCurrent ==
    ASSUME MissedInv, Reading, NEW item \in poll.page,
           seen' = [seen EXCEPT ![item[1]] = item[2]], UNCHANGED <<updated, since, left>>
    PROVE  NothingMissed'
<1> SUFFICES ASSUME ~ left', since' # None, NEW j \in Items,
                    updated'[j] # 0, updated'[j] < Seconds(since)'
             PROVE  seen'[j] = updated'[j]
  BY DEF NothingMissed
<1>1. Seconds(since)' = Seconds(since)
  BY DEF Seconds
<1>2. seen[j] = updated[j]
  BY <1>1 DEF MissedInv, NothingMissed
<1>3. CASE item[1] = j
  <2>1. since \in Nat /\ poll.to \in Nat /\ since <= poll.to
    BY DEF MissedInv, TypeOK, Asked
  <2>2. Seconds(since) \in Nat /\ Seconds(since) <= since
    BY <2>1, SecondsBefore
  <2>3. updated[j] = item[2]
    BY <1>1, <1>3, <2>1, <2>2 DEF MissedInv, Fresh, TypeOK
  <2>4. QED  BY <1>3, <2>3 DEF MissedInv, TypeOK
<1>4. CASE item[1] # j
  BY <1>2, <1>4 DEF MissedInv, TypeOK
<1>5. QED  BY <1>3, <1>4

\* A page brings all that lies between where its request started and where
\* the next one does.
LEMMA FetchMisses ==
    ASSUME MissedInv, "comma" \notin LinkForms, Fetch
    PROVE  Fresh' /\ Covered' /\ NothingMissed'
<1>1. PICK start \in Nat, after \in Nat :
        LET page == {i \in Window(poll.req) : /\ Position(poll.req, i) >= start
                                             /\ Position(poll.req, i) < after}
        IN  /\ start = (IF poll.next = None THEN 0 ELSE poll.next.offset)
            /\ start <= after
            /\ \/ poll'.next \in {None, [poll.req EXCEPT !.offset = after]}
               \/ poll'.next = [poll.req EXCEPT !.offset = 0] /\ back'
            /\ poll' = [poll EXCEPT !.status = "yield", !.next = poll'.next,
                                    !.page = {<<i, updated[i]>> : i \in page}]
            /\ "comma" \notin LinkForms /\ poll'.next = None =>
                   Cardinality(Window(poll.req)) <= after
  BY Fetched DEF MissedInv
<1> DEFINE items == {<<i, updated[i]>> :
                       i \in {i \in Window(poll.req) : /\ Position(poll.req, i) >= start
                                                      /\ Position(poll.req, i) < after}}
<1>2. /\ Reading /\ poll.status = "fetch" /\ poll.page = {} /\ poll.req \in Requests
      /\ UNCHANGED <<now, updated, since, polls, seen, left>>
  BY DEF Fetch, Reading, MissedInv, Asked
<1>3. poll' = [poll EXCEPT !.status = "yield", !.next = poll'.next, !.page = items]
  BY <1>1
<1>4. \A i \in Window(poll.req) :
        Position(poll.req, i) >= start /\ Position(poll.req, i) < after
          => <<i, updated[i]>> \in items
  OBVIOUS
<1>5. \A item \in items : updated[item[1]] = item[2]
  OBVIOUS
<1> HIDE DEF items
<1>6. /\ poll'.status = "yield" /\ poll'.page = items /\ poll'.req = poll.req
      /\ poll'.to = poll.to
  BY <1>3 DEF MissedInv, TypeOK, PollType
<1>7. Window(poll.req)' = Window(poll.req)
      /\ \A i : Position(poll.req, i)' = Position(poll.req, i)
  BY <1>2, <1>6, SameList
<1>8. Fresh'
  BY <1>2, <1>5, <1>6 DEF Fresh
<1>9. Covered'
  <2> SUFFICES ASSUME ~ left', NEW i \in Window(poll.req),
                      updated[i] < poll.to, Reached(i)'
               PROVE  seen[i] = updated[i] \/ <<i, updated[i]>> \in items
    BY <1>2, <1>6, <1>7 DEF Covered
  <2>1. i \in Items /\ Position(poll.req, i) \in Nat /\ Cardinality(Window(poll.req)) \in Nat
        /\ Position(poll.req, i) < Cardinality(Window(poll.req))
    BY Places DEF Window, Position
  <2>2. Position(poll.req, i) < after
    <3>1. CASE poll'.next = None
      BY <1>1, <2>1, <3>1
    <3>2. CASE poll'.next # None
      <4>1. poll'.next.offset \in {0, after}
        BY <1>1, <1>2, <3>2 DEF Requests
      <4>2. Position(poll.req, i) < poll'.next.offset
        BY <1>7, <3>2 DEF Reached
      <4>3. QED  BY <2>1, <4>1, <4>2
    <3>3. QED  BY <3>1, <3>2
  <2>3. CASE Position(poll.req, i) >= start
    BY <1>4, <2>2, <2>3
  <2>4. CASE ~ (Position(poll.req, i) >= start)
    <3>1. Reached(i)
      BY <1>1, <2>1, <2>4 DEF Reached
    <3>2. QED  BY <1>2, <3>1 DEF MissedInv, Covered
  <2>5. QED  BY <2>3, <2>4
<1>10. NothingMissed'
  BY <1>2 DEF MissedInv, NothingMissed, Seconds
<1>11. QED  BY <1>8, <1>9, <1>10

\* No step makes the client miss an object.
LEMMA MissedStep ==
    ASSUME MissedInv, "comma" \notin LinkForms, [Next]_vars
    PROVE  MissedInv'
<1> SUFFICES Fresh' /\ Covered' /\ NothingMissed'
  BY TypesAndAsked DEF MissedInv
<1>1. CASE Tick \/ Cancel \/ UNCHANGED vars
  <2>1. UNCHANGED <<updated, poll, since, seen, left, back>>
    BY <1>1 DEF Tick, Cancel, vars, list
  <2>2. /\ Window(poll.req)' = Window(poll.req)
        /\ \A i : Position(poll.req, i)' = Position(poll.req, i)
    BY <2>1, SameList
  <2>3. QED  BY <2>1, <2>2 DEF MissedInv, Fresh, Covered, Reached, Reading, NothingMissed, Seconds
<1>2. ASSUME NEW i \in Items, UpdateObject(i) \/ RemoveObject(i)
      PROVE  Fresh' /\ Covered' /\ NothingMissed'
  BY <1>2, ChangeMisses
<1>3. CASE StartPoll
  <2>1. poll'.status = "fetch" /\ poll'.page = {} /\ poll'.next = None
        /\ UNCHANGED <<now, updated, since, seen, left>>
    BY <1>3 DEF StartPoll, Idle
  <2>2. \A i : ~ Reached(i)'
    BY <2>1 DEF Reached
  <2>3. Fresh' /\ Covered'
    BY <2>1, <2>2 DEF Fresh, Covered
  <2>4. QED  BY <2>1, <2>3 DEF MissedInv, NothingMissed, Seconds
<1>4. CASE Fetch
  BY <1>4, FetchMisses
<1>5. CASE FetchFails \/ Break
  <2>1. ~ Reading'
    BY <1>5, IdleType DEF FetchFails, Break, Reading
  <2>2. CASE FetchFails
    BY <2>1, <2>2 DEF FetchFails, MissedInv, Fresh, Covered, NothingMissed, Seconds
  <2>3. CASE Break
    BY <2>1, <2>3, GivenIsCurrent DEF Break, Given, Reading, Fresh, Covered
  <2>4. QED  BY <1>5, <2>2, <2>3
<1>6. CASE Yield
  <2>1. PICK item \in poll.page :
          /\ seen' = [seen EXCEPT ![item[1]] = item[2]]
          /\ poll' = [poll EXCEPT !.page = @ \ {item},
                                  !.got[item[1]] = IF @ = 2 THEN 2 ELSE @ + 1]
    BY <1>6 DEF Yield, Given
  <2>2. Reading /\ UNCHANGED <<now, updated, since, polls, left>>
    BY <1>6 DEF Yield, Given, Reading
  <2>3. /\ poll'.status = poll.status /\ poll'.req = poll.req /\ poll'.to = poll.to
        /\ poll'.next = poll.next /\ poll'.page = poll.page \ {item}
    BY <2>1 DEF MissedInv, TypeOK, PollType
  <2>4. /\ Window(poll.req)' = Window(poll.req)
        /\ \A i : Position(poll.req, i)' = Position(poll.req, i)
    BY <2>2, <2>3, SameList
  <2>5. item \in Items \X Nat
    BY DEF MissedInv, TypeOK, PollType
  <2>6. Fresh'
    BY <2>2, <2>3 DEF MissedInv, Fresh
  <2>7. Covered'
    <3> SUFFICES ASSUME ~ left, NEW i \in Window(poll.req), updated[i] < poll.to, Reached(i)
                 PROVE  seen'[i] = updated[i] \/ <<i, updated[i]>> \in poll.page \ {item}
      BY <2>2, <2>3, <2>4 DEF Covered, Reached
    <3>1. i \in Items /\ updated[i] # 0
      BY DEF Window, InWindow, Selects
    <3>2. seen[i] = updated[i] \/ <<i, updated[i]>> \in poll.page
      BY <2>2 DEF MissedInv, Covered
    <3>3. CASE item[1] = i
      <4>1. updated[i] = item[2]
        BY <2>2, <3>1, <3>3 DEF MissedInv, Fresh, Asked, TypeOK
      <4>2. QED  BY <2>1, <3>1, <3>3, <4>1 DEF MissedInv, TypeOK
    <3>4. CASE item[1] # i
      BY <2>1, <2>5, <3>1, <3>2, <3>4 DEF MissedInv, TypeOK
    <3>5. QED  BY <3>3, <3>4
  <2>8. NothingMissed'
    BY <2>1, <2>2, GivenIsCurrent
  <2>9. QED  BY <2>6, <2>7, <2>8
<1>7. CASE EndOfPage
  <2>1. poll.status = "yield" /\ poll.page = {} /\ Reading
        /\ UNCHANGED <<now, updated, polls, seen, left>>
    BY <1>7 DEF EndOfPage, Reading
  <2>2. CASE poll.next # None /\ poll' = [poll EXCEPT !.status = "fetch"] /\ UNCHANGED since
    <3>1. /\ poll'.status = "fetch" /\ poll'.req = poll.req /\ poll'.to = poll.to
          /\ poll'.next = poll.next /\ poll'.page = {}
      BY <2>1, <2>2 DEF MissedInv, TypeOK, PollType
    <3>2. /\ Window(poll.req)' = Window(poll.req)
          /\ \A i : Position(poll.req, i)' = Position(poll.req, i)
      BY <2>1, <3>1, SameList
    <3>3. Fresh' /\ Covered'
      BY <2>1, <3>1, <3>2 DEF MissedInv, Fresh, Covered, Reached
    <3>4. QED  BY <2>1, <2>2, <3>3 DEF MissedInv, NothingMissed, Seconds
  <2>3. CASE poll.next = None /\ poll' = [Idle EXCEPT !.status = "done"] /\ since' = poll.to
    <3>1. ~ Reading'
      BY <2>3, IdleType DEF Reading
    <3>2. NothingMissed'
      <4> SUFFICES ASSUME ~ left, NEW i \in Items, updated[i] # 0,
                          updated[i] < Seconds(poll.to)
                   PROVE  seen[i] = updated[i]
        BY <2>1, <2>3 DEF NothingMissed, Seconds
      <4>1. poll.to \in Nat /\ Seconds(poll.to) \in Nat /\ Seconds(poll.to) <= poll.to
        BY <2>1, SecondsBefore DEF MissedInv, Asked
      <4>2. updated[i] \in Nat /\ updated[i] < poll.to
        BY <4>1 DEF MissedInv, TypeOK
      <4>3. CASE i \in Window(poll.req)
        BY <2>1, <2>3, <4>2, <4>3 DEF MissedInv, Covered, Reached
      <4>4. CASE i \notin Window(poll.req)
        <5>1. poll.req.from # None /\ ~ (updated[i] >= poll.req.from)
          BY <2>1, <4>1, <4>4, NoneAssumption
             DEF MissedInv, Asked, Window, InWindow, Selects
        <5>2. since # None
          BY <2>1, <5>1 DEF MissedInv, Asked, Seconds
        <5>3. since \in Nat /\ Seconds(since) \in Nat
          BY <5>2, SecondsBefore DEF MissedInv, TypeOK
        <5>4. updated[i] < Seconds(since)
          BY <2>1, <4>2, <5>1, <5>3 DEF MissedInv, Asked
        <5>5. QED  BY <5>2, <5>4 DEF MissedInv, NothingMissed
      <4>5. QED  BY <4>3, <4>4
    <3>3. QED  BY <3>1, <3>2 DEF Fresh, Covered
  <2>4. QED  BY <1>7, <2>2, <2>3 DEF EndOfPage
<1>8. QED
  BY <1>1, <1>2, <1>3, <1>4, <1>5, <1>6, <1>7 DEF Next

(* Pagination: as long as no object leaves a window that is being read, a  *)
(* client whose lists end without an error has been given the current      *)
(* version of every object updated before the time it asks from next, over *)
(* however many lists, pages and changes.  The links must be written so    *)
(* that parseNextLink finds them; with a comma in a URL it fails.          *)
THEOREM NothingIsMissed ==
    ASSUME "comma" \notin LinkForms
    PROVE  Spec => []NothingMissed
<1>1. Init => MissedInv
  <2> SUFFICES ASSUME Init PROVE MissedInv
    OBVIOUS
  <2>1. TypeOK /\ Asked /\ ~ Reading
    BY InitTypes
  <2>2. since = None
    BY DEF Init
  <2>3. QED  BY <2>1, <2>2 DEF MissedInv, Fresh, Covered, NothingMissed
<1>2. MissedInv /\ [Next]_vars => MissedInv'
  BY MissedStep
<1>3. MissedInv => NothingMissed
  BY DEF MissedInv
<1>4. QED  BY <1>1, <1>2, <1>3, PTL DEF Spec

-----------------------------------------------------------------------------
(* Nothing is yielded twice.                                               *)

\* Objects that leave or stay move what is behind them forward, where the
\* reading has already been.
LEMMA ChangeRepeatsNothing ==
    ASSUME RepeatedInv, NEW i \in Items, UpdateObject(i) \/ RemoveObject(i)
    PROVE  Once' /\ RepeatedOnlyAfterGrowth'
<1>1. PICK time \in Nat : Change(i, time)
  BY DEF UpdateObject, RemoveObject, RepeatedInv, TypeOK
<1>2. poll' = [poll EXCEPT !.entered = poll'.entered] /\ poll'.entered \in BOOLEAN
  BY <1>1, ChangeTypes DEF RepeatedInv
<1>3. /\ poll'.status = poll.status /\ poll'.req = poll.req /\ poll'.next = poll.next
      /\ poll'.page = poll.page /\ poll'.got = poll.got
  BY <1>2 DEF RepeatedInv, TypeOK, PollType
<1>4. back' = back /\ (~ poll'.entered => ~ poll.entered)
  BY <1>1 DEF Change, list, RepeatedInv, TypeOK, PollType
<1>5. RepeatedOnlyAfterGrowth'
  BY <1>3, <1>4 DEF RepeatedInv, RepeatedOnlyAfterGrowth
<1>6. (Reading => \A p, q \in poll.page : p[1] = q[1] => p = q)'
  BY <1>3 DEF RepeatedInv, Once, Reading
<1>7. ASSUME Reading', ~ poll'.entered, ~ back', NEW j \in Items
      PROVE  /\ OnPage(j)' => poll'.got[j] = 0
             /\ (poll'.got[j] > 0 \/ OnPage(j)') /\ j \in Window(poll.req)' => Reached(j)'
  <2>1. Reading /\ ~ poll.entered /\ ~ back
    BY <1>3, <1>4, <1>7 DEF Reading
  <2>2. /\ Window(poll.req)' \subseteq Window(poll.req)
        /\ Position(poll.req, j)' <= Position(poll.req, j)
        /\ Position(poll.req, j) \in Nat /\ Position(poll.req, j)' \in Nat
    BY <1>1, <1>7, <2>1, ChangedList DEF RepeatedInv
  <2>3. OnPage(j)' = OnPage(j)
    BY <1>3 DEF OnPage
  <2>4. Reached(j) => Reached(j)'
    <3>1. poll.next # None => poll.next.offset \in Nat
      BY DEF RepeatedInv, TypeOK, PollType, Requests
    <3>2. QED  BY <1>3, <2>2, <3>1 DEF Reached
  <2>5. /\ OnPage(j) => poll.got[j] = 0
        /\ (poll.got[j] > 0 \/ OnPage(j)) /\ j \in Window(poll.req) => Reached(j)
    BY <2>1 DEF RepeatedInv, Once
  <2>6. QED  BY <1>3, <2>2, <2>3, <2>4, <2>5
<1>8. QED  BY <1>5, <1>6, <1>7 DEF Once

\* A page begins where what was received ends.
LEMMA FetchRepeatsNothing ==
    ASSUME RepeatedInv, Fetch
    PROVE  Once' /\ RepeatedOnlyAfterGrowth'
<1>1. PICK start \in Nat, after \in Nat :
        LET page == {i \in Window(poll.req) : /\ Position(poll.req, i) >= start
                                             /\ Position(poll.req, i) < after}
        IN  /\ start = (IF poll.next = None THEN 0 ELSE poll.next.offset)
            /\ start <= after
            /\ \/ poll'.next \in {None, [poll.req EXCEPT !.offset = after]}
               \/ poll'.next = [poll.req EXCEPT !.offset = 0] /\ back'
            /\ poll' = [poll EXCEPT !.status = "yield", !.next = poll'.next,
                                    !.page = {<<i, updated[i]>> : i \in page}]
  BY Fetched DEF RepeatedInv
<1> DEFINE page == {i \in Window(poll.req) : /\ Position(poll.req, i) >= start
                                            /\ Position(poll.req, i) < after}
           items == {<<i, updated[i]>> : i \in page}
<1>2. /\ Reading /\ poll.status = "fetch" /\ poll.page = {} /\ poll.req \in Requests
      /\ UNCHANGED <<now, updated, since, polls, seen, left>>
  BY DEF Fetch, Reading, RepeatedInv, Asked
<1>3. poll' = [poll EXCEPT !.status = "yield", !.next = poll'.next, !.page = items]
  BY <1>1
<1>4. /\ \A p, q \in items : p[1] = q[1] => p = q
      /\ \A i : (\E item \in items : item[1] = i) => i \in page
  OBVIOUS
<1> HIDE DEF items
<1>5. /\ poll'.status = "yield" /\ poll'.page = items /\ poll'.req = poll.req
      /\ poll'.got = poll.got /\ poll'.entered = poll.entered
  BY <1>3 DEF RepeatedInv, TypeOK, PollType
<1>6. Window(poll.req)' = Window(poll.req)
      /\ \A i : Position(poll.req, i)' = Position(poll.req, i)
  BY <1>2, <1>5, SameList
<1>7. ASSUME ~ poll.entered, ~ back', NEW i \in Items
      PROVE  /\ OnPage(i)' => poll.got[i] = 0
             /\ (poll.got[i] > 0 \/ OnPage(i)') /\ i \in Window(poll.req) => Reached(i)'
  <2>1. OnPage(i)' => i \in page
    BY <1>4, <1>5 DEF OnPage
  <2>2. Position(poll.req, i) \in Nat
    BY Places DEF Window, Position
  <2>3. poll.got[i] \in Nat
    BY DEF RepeatedInv, TypeOK, PollType
  <2>9. ~ back
    BY <1>7 DEF Fetch
  <2>4. poll.got[i] > 0 /\ i \in Window(poll.req) => Position(poll.req, i) < start
    BY <1>1, <1>2, <1>7, <2>9 DEF RepeatedInv, Once, Reached
  <2>5. Reached(i)' <=> poll'.next = None \/ Position(poll.req, i) < after
    BY <1>1, <1>2, <1>5, <1>6, <1>7, NoneAssumption DEF Reached, Requests
  <2>6. OnPage(i)' => poll.got[i] = 0
    BY <2>1, <2>2, <2>3, <2>4
  <2>7. (poll.got[i] > 0 \/ OnPage(i)') /\ i \in Window(poll.req) => Position(poll.req, i) < after
    BY <1>1, <2>1, <2>2, <2>4
  <2>8. QED  BY <2>5, <2>6, <2>7
<1>8. Once'
  BY <1>4, <1>5, <1>6, <1>7 DEF Once
<1>9. ~ back' => ~ back
  BY DEF Fetch
<1>10. QED  BY <1>5, <1>8, <1>9 DEF RepeatedInv, RepeatedOnlyAfterGrowth

\* No step has the client given an object twice.
LEMMA RepeatedStep ==
    ASSUME RepeatedInv, [Next]_vars
    PROVE  RepeatedInv'
<1> SUFFICES Once' /\ RepeatedOnlyAfterGrowth'
  BY TypesAndAsked DEF RepeatedInv
<1>1. CASE Tick \/ Cancel \/ UNCHANGED vars
  <2>1. UNCHANGED <<updated, poll, since, seen, left, back>>
    BY <1>1 DEF Tick, Cancel, vars, list
  <2>2. /\ Window(poll.req)' = Window(poll.req)
        /\ \A i : Position(poll.req, i)' = Position(poll.req, i)
    BY <2>1, SameList
  <2>3. QED  BY <2>1, <2>2 DEF RepeatedInv, Once, OnPage, Reached, Reading,
                               RepeatedOnlyAfterGrowth
<1>2. ASSUME NEW i \in Items, UpdateObject(i) \/ RemoveObject(i)
      PROVE  Once' /\ RepeatedOnlyAfterGrowth'
  BY <1>2, ChangeRepeatsNothing
<1>3. CASE StartPoll
  <2>1. poll'.page = {} /\ poll'.got = [i \in Items |-> 0]
    BY <1>3 DEF StartPoll, Idle
  <2>2. QED  BY <2>1 DEF Once, OnPage, RepeatedOnlyAfterGrowth
<1>4. CASE Fetch
  BY <1>4, FetchRepeatsNothing
<1>5. CASE FetchFails \/ Break
  <2>1. ~ Reading' /\ poll'.got = [i \in Items |-> 0]
    BY <1>5 DEF FetchFails, Break, Idle, Reading
  <2>2. QED  BY <2>1 DEF Once, RepeatedOnlyAfterGrowth
<1>6. CASE Yield
  <2>1. PICK item \in poll.page :
          poll' = [poll EXCEPT !.page = @ \ {item},
                              !.got[item[1]] = IF @ = 2 THEN 2 ELSE @ + 1]
    BY <1>6 DEF Yield, Given
  <2>2. Reading /\ UNCHANGED <<now, updated, since, polls, left, back>>
    BY <1>6 DEF Yield, Given, Reading, list
  <2>3. /\ poll'.status = poll.status /\ poll'.req = poll.req /\ poll'.next = poll.next
        /\ poll'.page = poll.page \ {item} /\ poll'.entered = poll.entered
        /\ poll'.got = [poll.got EXCEPT ![item[1]] = IF @ = 2 THEN 2 ELSE @ + 1]
    BY <2>1 DEF RepeatedInv, TypeOK, PollType
  <2>4. /\ Window(poll.req)' = Window(poll.req)
        /\ \A i : Position(poll.req, i)' = Position(poll.req, i)
    BY <2>2, <2>3, SameList
  <2>5. item[1] \in Items /\ OnPage(item[1]) /\ poll.got \in [Items -> 0 .. 2]
    BY DEF RepeatedInv, TypeOK, PollType, OnPage
  <2>6. \A p, q \in poll.page : p[1] = q[1] => p = q
    BY <2>2 DEF RepeatedInv, Once
  <2>7. ASSUME ~ poll.entered, ~ back, NEW i \in Items
        PROVE  /\ OnPage(i)' => poll'.got[i] = 0
               /\ (poll'.got[i] > 0 \/ OnPage(i)') /\ i \in Window(poll.req) => Reached(i)
               /\ poll'.got[i] < 2
    <3>1. /\ OnPage(i) => poll.got[i] = 0
          /\ (poll.got[i] > 0 \/ OnPage(i)) /\ i \in Window(poll.req) => Reached(i)
          /\ poll.got[i] < 2
      BY <2>2, <2>7 DEF RepeatedInv, Once, RepeatedOnlyAfterGrowth
    <3>2. OnPage(i)' => OnPage(i) /\ i # item[1]
      BY <2>3, <2>6 DEF OnPage
    <3>3. CASE i = item[1]
      <4>1. OnPage(i) /\ poll.got[i] = 0
        BY <2>5, <3>1, <3>3
      <4>2. poll'.got[i] = 1
        BY <2>3, <2>5, <3>3, <4>1
      <4>3. QED  BY <3>1, <3>2, <3>3, <4>1, <4>2
    <3>4. CASE i # item[1]
      <4>1. poll'.got[i] = poll.got[i]
        BY <2>3, <2>5, <3>4
      <4>2. QED  BY <3>1, <3>2, <4>1
    <3>5. QED  BY <3>3, <3>4
  <2>8. \A i : Reached(i)' = Reached(i)
    BY <2>3, <2>4 DEF Reached
  <2>9. Once'
    BY <2>2, <2>3, <2>4, <2>6, <2>7, <2>8 DEF Once
  <2>10. QED  BY <2>2, <2>3, <2>7, <2>9 DEF RepeatedOnlyAfterGrowth
<1>7. CASE EndOfPage
  <2>1. poll.status = "yield" /\ poll.page = {} /\ Reading
        /\ UNCHANGED <<now, updated, polls, seen, left>>
    BY <1>7 DEF EndOfPage, Reading
  <2>2. CASE poll.next # None /\ poll' = [poll EXCEPT !.status = "fetch"] /\ UNCHANGED list
    <3>1. /\ poll'.status = "fetch" /\ poll'.req = poll.req /\ poll'.next = poll.next
          /\ poll'.page = {} /\ poll'.got = poll.got /\ poll'.entered = poll.entered
      BY <2>1, <2>2 DEF RepeatedInv, TypeOK, PollType
    <3>2. /\ Window(poll.req)' = Window(poll.req)
          /\ \A i : Position(poll.req, i)' = Position(poll.req, i)
      BY <2>1, <3>1, SameList
    <3>3. \A i : OnPage(i)' = OnPage(i) /\ (Reached(i)' <=> Reached(i))
      BY <2>1, <2>2, <3>1, <3>2 DEF OnPage, Reached
    <3>4. QED  BY <2>1, <2>2, <3>1, <3>2, <3>3 DEF list, RepeatedInv, Once, RepeatedOnlyAfterGrowth
  <2>3. CASE poll' = [Idle EXCEPT !.status = "done"]
    <3>1. ~ Reading' /\ poll'.got = [i \in Items |-> 0]
      BY <2>3 DEF Idle, Reading
    <3>2. QED  BY <3>1 DEF Once, RepeatedOnlyAfterGrowth
  <2>4. QED  BY <1>7, <2>2, <2>3 DEF EndOfPage
<1>8. QED
  BY <1>1, <1>2, <1>3, <1>4, <1>5, <1>6, <1>7 DEF Next

(* Pagination: within one list an object is yielded twice only if an       *)
(* object entered its window while the pages were being read or the owner  *)
(* linked back, whatever the page sizes and however the links are written. *)
THEOREM NoneRepeatedWithoutGrowth == Spec => []RepeatedOnlyAfterGrowth
<1>1. Init => RepeatedInv
  <2> SUFFICES ASSUME Init PROVE RepeatedInv
    OBVIOUS
  <2>1. TypeOK /\ Asked /\ ~ Reading /\ poll = Idle
    BY InitTypes
  <2>2. poll.got = [i \in Items |-> 0]
    BY <2>1 DEF Idle
  <2>3. QED  BY <2>1, <2>2 DEF RepeatedInv, Once, RepeatedOnlyAfterGrowth
<1>2. RepeatedInv /\ [Next]_vars => RepeatedInv'
  BY RepeatedStep
<1>3. RepeatedInv => RepeatedOnlyAfterGrowth
  BY DEF RepeatedInv
<1>4. QED  BY <1>1, <1>2, <1>3, PTL DEF Spec

-----------------------------------------------------------------------------
(* Every item is given.                                                    *)

\* While the list stands still, what the pages received have covered was
\* given in this reading, or is on the page.
Everything ==
    Reading /\ ~ left /\ ~ poll.entered =>
        \A i \in Window(poll.req) : Reached(i) => poll.got[i] > 0 \/ OnPage(i)

EveryInv == TypeOK /\ Asked /\ Everything

\* A page gives what is next in the list.
LEMMA FetchGivesAll ==
    ASSUME EveryInv, "comma" \notin LinkForms, Fetch
    PROVE  Everything'
<1>1. PICK start \in Nat, after \in Nat :
        LET page == {i \in Window(poll.req) : /\ Position(poll.req, i) >= start
                                             /\ Position(poll.req, i) < after}
        IN  /\ start = (IF poll.next = None THEN 0 ELSE poll.next.offset)
            /\ start <= after
            /\ \/ poll'.next \in {None, [poll.req EXCEPT !.offset = after]}
               \/ poll'.next = [poll.req EXCEPT !.offset = 0] /\ back'
            /\ poll' = [poll EXCEPT !.status = "yield", !.next = poll'.next,
                                    !.page = {<<i, updated[i]>> : i \in page}]
            /\ "comma" \notin LinkForms /\ poll'.next = None =>
                   Cardinality(Window(poll.req)) <= after
  BY Fetched DEF EveryInv
<1> DEFINE page == {i \in Window(poll.req) : /\ Position(poll.req, i) >= start
                                            /\ Position(poll.req, i) < after}
           items == {<<i, updated[i]>> : i \in page}
<1>2. /\ Reading /\ poll.status = "fetch" /\ poll.page = {} /\ poll.req \in Requests
      /\ UNCHANGED <<now, updated, since, polls, seen, left>>
  BY DEF Fetch, Reading, EveryInv, Asked
<1>3. poll' = [poll EXCEPT !.status = "yield", !.next = poll'.next, !.page = items]
  BY <1>1
<1>4. \A i \in page : \E item \in items : item[1] = i
  <2>1. \A i \in page : <<i, updated[i]>> \in items /\ <<i, updated[i]>>[1] = i
    OBVIOUS
  <2> HIDE DEF items
  <2>2. QED  BY <2>1
<1> HIDE DEF items
<1>5. /\ poll'.status = "yield" /\ poll'.page = items /\ poll'.req = poll.req
      /\ poll'.got = poll.got /\ poll'.entered = poll.entered
  BY <1>3 DEF EveryInv, TypeOK, PollType
<1>6. Window(poll.req)' = Window(poll.req)
      /\ \A i : Position(poll.req, i)' = Position(poll.req, i)
  BY <1>2, <1>5, SameList
<1>7. ASSUME ~ left, ~ poll.entered, NEW i \in Window(poll.req), Reached(i)'
      PROVE  poll.got[i] > 0 \/ OnPage(i)'
  <2>1. Position(poll.req, i) \in Nat /\ Cardinality(Window(poll.req)) \in Nat
        /\ Position(poll.req, i) < Cardinality(Window(poll.req))
    BY Places DEF Window, Position
  <2>2. Position(poll.req, i) < after
    <3>1. CASE poll'.next = None
      BY <1>1, <2>1, <3>1
    <3>2. CASE poll'.next # None
      <4>1. poll'.next.offset \in {0, after}
        BY <1>1, <1>2, <3>2 DEF Requests
      <4>2. Position(poll.req, i) < poll'.next.offset
        BY <1>6, <1>7, <3>2 DEF Reached
      <4>3. QED  BY <2>1, <4>1, <4>2
    <3>3. QED  BY <3>1, <3>2
  <2>3. CASE Position(poll.req, i) >= start
    BY <1>4, <1>5, <2>2, <2>3 DEF OnPage
  <2>4. CASE ~ (Position(poll.req, i) >= start)
    <3>1. Reached(i)
      BY <1>1, <2>1, <2>4 DEF Reached
    <3>2. ~ OnPage(i)
      BY <1>2 DEF OnPage
    <3>3. QED  BY <1>2, <1>7, <3>1, <3>2 DEF EveryInv, Everything
  <2>5. QED  BY <2>3, <2>4
<1>8. QED  BY <1>2, <1>5, <1>6, <1>7 DEF Everything

\* No step leaves out an object of a list that stands still.
LEMMA EveryStep ==
    ASSUME EveryInv, "comma" \notin LinkForms, [Next]_vars
    PROVE  EveryInv'
<1> SUFFICES Everything'
  BY TypesAndAsked DEF EveryInv
<1>1. CASE Tick \/ Cancel \/ UNCHANGED vars
  <2>1. UNCHANGED <<updated, poll, since, seen, left, back>>
    BY <1>1 DEF Tick, Cancel, vars, list
  <2>2. /\ Window(poll.req)' = Window(poll.req)
        /\ \A i : Position(poll.req, i)' = Position(poll.req, i)
    BY <2>1, SameList
  <2>3. QED  BY <2>1, <2>2 DEF EveryInv, Everything, OnPage, Reached, Reading
<1>2. ASSUME NEW i \in Items, UpdateObject(i) \/ RemoveObject(i)
      PROVE  Everything'
  <2>1. PICK time \in Nat : Change(i, time)
    BY <1>2 DEF UpdateObject, RemoveObject, EveryInv, TypeOK
  <2>2. poll' = [poll EXCEPT !.entered = poll'.entered] /\ poll'.entered \in BOOLEAN
    BY <2>1, ChangeTypes DEF EveryInv
  <2>3. /\ poll'.status = poll.status /\ poll'.req = poll.req /\ poll'.next = poll.next
        /\ poll'.page = poll.page /\ poll'.got = poll.got
    BY <2>2 DEF EveryInv, TypeOK, PollType
  <2>4. SUFFICES ASSUME Reading', ~ left', ~ poll'.entered, NEW j \in Window(poll.req)',
                        Reached(j)'
                 PROVE  poll'.got[j] > 0 \/ OnPage(j)'
    BY DEF Everything
  <2>5. Reading /\ j \in Items
    BY <2>3, <2>4 DEF Reading, Window
  <2>6. /\ ~ left /\ ~ poll.entered /\ j \in Window(poll.req)
        /\ Position(poll.req, j) <= Position(poll.req, j)'
        /\ Position(poll.req, j) \in Nat /\ Position(poll.req, j)' \in Nat
    BY <2>1, <2>4, <2>5, ChangedList DEF EveryInv
  <2>7. Reached(j)
    <3>1. poll.next # None => poll.next.offset \in Nat
      BY DEF EveryInv, TypeOK, PollType, Requests
    <3>2. QED  BY <2>3, <2>4, <2>6, <3>1 DEF Reached
  <2>8. QED  BY <2>3, <2>5, <2>6, <2>7 DEF EveryInv, Everything, OnPage
<1>3. CASE StartPoll
  <2>1. poll'.status = "fetch" /\ poll'.next = None
    BY <1>3 DEF StartPoll, Idle
  <2>2. QED  BY <2>1 DEF Everything, Reached
<1>4. CASE Fetch
  BY <1>4, FetchGivesAll
<1>5. CASE FetchFails \/ Break
  BY <1>5 DEF FetchFails, Break, Idle, Reading, Everything
<1>6. CASE Yield
  <2>1. PICK item \in poll.page :
          poll' = [poll EXCEPT !.page = @ \ {item},
                              !.got[item[1]] = IF @ = 2 THEN 2 ELSE @ + 1]
    BY <1>6 DEF Yield, Given
  <2>2. Reading /\ UNCHANGED <<now, updated, since, polls, left>>
    BY <1>6 DEF Yield, Given, Reading
  <2>3. /\ poll'.status = poll.status /\ poll'.req = poll.req /\ poll'.next = poll.next
        /\ poll'.page = poll.page \ {item} /\ poll'.entered = poll.entered
        /\ poll'.got = [poll.got EXCEPT ![item[1]] = IF @ = 2 THEN 2 ELSE @ + 1]
    BY <2>1 DEF EveryInv, TypeOK, PollType
  <2>4. /\ Window(poll.req)' = Window(poll.req)
        /\ \A i : Position(poll.req, i)' = Position(poll.req, i)
    BY <2>2, <2>3, SameList
  <2>5. item[1] \in Items /\ poll.got \in [Items -> 0 .. 2]
    BY DEF EveryInv, TypeOK, PollType
  <2>6. ASSUME NEW i \in Items, poll.got[i] > 0 \/ OnPage(i)
        PROVE  poll'.got[i] > 0 \/ OnPage(i)'
    <3>1. CASE i = item[1]
      <4>1. poll'.got[i] > 0
        BY <2>3, <2>5, <3>1
      <4>2. QED  BY <4>1
    <3>2. CASE i # item[1]
      BY <2>3, <2>5, <2>6, <3>2 DEF OnPage
    <3>3. QED  BY <3>1, <3>2
  <2>7. \A i : Reached(i)' = Reached(i)
    BY <2>3, <2>4 DEF Reached
  <2>8. QED  BY <2>2, <2>3, <2>4, <2>6, <2>7 DEF EveryInv, Everything, Window
<1>7. CASE EndOfPage
  <2>1. poll.status = "yield" /\ poll.page = {} /\ Reading
        /\ UNCHANGED <<now, updated, polls, seen, left>>
    BY <1>7 DEF EndOfPage, Reading
  <2>2. CASE poll.next # None /\ poll' = [poll EXCEPT !.status = "fetch"]
    <3>1. /\ poll'.status = "fetch" /\ poll'.req = poll.req /\ poll'.next = poll.next
          /\ poll'.page = {} /\ poll'.got = poll.got /\ poll'.entered = poll.entered
      BY <2>1, <2>2 DEF EveryInv, TypeOK, PollType
    <3>2. /\ Window(poll.req)' = Window(poll.req)
          /\ \A i : Position(poll.req, i)' = Position(poll.req, i)
      BY <2>1, <3>1, SameList
    <3>3. \A i : OnPage(i)' = OnPage(i) /\ (Reached(i)' <=> Reached(i))
      BY <2>1, <2>2, <3>1, <3>2 DEF OnPage, Reached
    <3>4. QED  BY <2>1, <3>1, <3>2, <3>3 DEF EveryInv, Everything
  <2>3. CASE poll' = [Idle EXCEPT !.status = "done"]
    BY <2>3 DEF Idle, Reading, Everything
  <2>4. QED  BY <1>7, <2>2, <2>3 DEF EndOfPage
<1>8. QED
  BY <1>1, <1>2, <1>3, <1>4, <1>5, <1>6, <1>7 DEF Next

(* Pagination: where parseNextLink finds the next links, Paginate iterates *)
(* "over every item across all pages" (core/pagination.go:132): a reading  *)
(* comes to its end only when every object of a list that stood still was  *)
(* given.  The commas of LinkForms are all that stands in the way.         *)
THEOREM PlainLinksGiveEveryItem ==
    ASSUME "comma" \notin LinkForms
    PROVE  Spec => EveryItemAcrossAllPages
<1>1. Init => EveryInv
  <2> SUFFICES ASSUME Init PROVE EveryInv
    OBVIOUS
  <2>1. TypeOK /\ Asked /\ ~ Reading
    BY InitTypes
  <2>2. QED  BY <2>1 DEF EveryInv, Everything
<1>2. EveryInv /\ [Next]_vars => EveryInv'
  BY EveryStep
<1> DEFINE AllGiven == Reading /\ poll'.status = "done" /\ ~ left /\ ~ poll.entered =>
                          \A i \in Items : InWindow(poll.req, i) => poll.got[i] > 0
<1>3. ASSUME EveryInv, [Next]_vars PROVE [AllGiven]_vars
  <2> SUFFICES ASSUME Next, Reading, poll'.status = "done", ~ left, ~ poll.entered
               PROVE  \A i \in Items : InWindow(poll.req, i) => poll.got[i] > 0
    BY <1>3
  <2>1. poll.status \in {"fetch", "yield"} /\ poll \in PollType
    BY <1>3 DEF Reading, EveryInv, TypeOK
  <2>2. EndOfPage
    <3>1. CASE Tick
      BY <2>1, <3>1 DEF Tick
    <3>2. ASSUME NEW i \in Items, UpdateObject(i) \/ RemoveObject(i) PROVE FALSE
      BY <2>1, <3>2 DEF UpdateObject, RemoveObject, Change, PollType
    <3>3. CASE StartPoll \/ Cancel \/ FetchFails \/ Break
      BY <2>1, <3>3 DEF StartPoll, Cancel, FetchFails, Break, Idle
    <3>4. CASE Fetch \/ Yield
      BY <2>1, <3>4 DEF Fetch, Yield, PollType
    <3>5. QED  BY <3>1, <3>2, <3>3, <3>4 DEF Next
  <2>3. poll.status = "yield" /\ poll.page = {} /\ poll.next = None
    BY <2>1, <2>2 DEF EndOfPage, PollType
  <2>4. QED  BY <1>3, <2>3 DEF EveryInv, Everything, Reached, OnPage, Window
<1>4. QED  BY <1>1, <1>2, <1>3, PTL DEF Spec, EveryItemAcrossAllPages

(* Pagination: a client only ever asks from a time that has come, within   *)
(* the list it began, and its clock, objects and pages have their types.   *)
THEOREM PaginationTypeCorrect == Spec => [](TypeOK /\ Asked)
<1>1. Init => TypeOK /\ Asked
  BY InitTypes
<1>2. TypeOK /\ Asked /\ [Next]_vars => (TypeOK /\ Asked)'
  BY TypesAndAsked
<1>3. QED  BY <1>1, <1>2, PTL DEF Spec

-----------------------------------------------------------------------------
(* A list has an end.                                                      *)

\* Where the reading stands in the list: at the start, or at the link's offset.
Stand == IF poll.next = None THEN 0 ELSE poll.next.offset

\* Of an owner that does not link back a next link continues the request that
\* was asked, behind the page it came with and before the end of the list as
\* the owner had it: an iteration that follows one never asks for the same
\* page again, and as no list is longer than the owner's objects there are, it
\* follows no more links than that, however the list changes meanwhile.
LinksGoForward ==
    Fetch /\ poll'.next # None /\ ~ back' =>
        /\ poll'.next = [poll.req EXCEPT !.offset = poll'.next.offset]
        /\ Stand < poll'.next.offset
        /\ poll'.next.offset < Cardinality(Window(poll.req))
        /\ poll'.next.offset < Cardinality(Items)

\* Only a fetch moves the reading within a list.
LinksStay ==
    Reading /\ Reading' /\ poll'.next # poll.next => Fetch

\* What a fetch finds behind its page.
LEMMA FetchGoesForward ==
    ASSUME TypeOK, Asked, Fetch, poll'.next # None, ~ back'
    PROVE  /\ poll'.next = [poll.req EXCEPT !.offset = poll'.next.offset]
           /\ Stand < poll'.next.offset
           /\ poll'.next.offset < Cardinality(Window(poll.req))
<1>1. Reading /\ poll.req \in Requests /\ poll.req.offset = 0
  BY DEF Fetch, Reading, Asked
<1> DEFINE asked == IF poll.next = None THEN poll.req ELSE poll.next
           size == IF asked.limit = 0 \/ asked.limit > PageSize THEN PageSize ELSE asked.limit
           after == asked.offset + size
<1>2. asked \in Requests /\ Stand \in Nat /\ asked.offset = Stand
  BY <1>1 DEF TypeOK, PollType, Requests, Stand
<1>3. after \in Nat /\ Stand < after
  <2>1. size \in Nat \ {0}
    BY <1>2, SizesAssumption DEF Requests
  <2> HIDE DEF size
  <2>2. QED  BY <1>2, <2>1
<1>4. poll.next # None => asked = [poll.req EXCEPT !.offset = Stand]
  BY <1>1 DEF Asked, Stand
<1>5. asked = [poll.req EXCEPT !.offset = Stand]
  BY <1>1, <1>4 DEF Requests, Stand
<1>6. Window(asked) = Window(poll.req)
  BY <1>1, <1>2, <1>5, SameWindow
<1>7. [asked EXCEPT !.offset = after] = [poll.req EXCEPT !.offset = after]
  BY <1>1, <1>5 DEF Requests
<1>8. PICK form \in LinkForms :
        /\ poll' = [poll EXCEPT !.status = "yield", !.page = Serve(asked, form).items,
                                !.next = ParseNextLink(Serve(asked, form).links)]
        /\ form # "back"
  BY DEF Fetch
<1>9. Serve(asked, form).links =
        IF after < Cardinality(Window(poll.req))
        THEN << [rel |-> "next", url |-> [poll.req EXCEPT !.offset = after], form |-> form] >>
        ELSE << >>
  BY <1>6, <1>7, <1>8 DEF Serve
<1>10. poll'.next = ParseNextLink(Serve(asked, form).links)
  BY <1>8 DEF TypeOK, PollType
<1> HIDE DEF asked, after
<1>11. after < Cardinality(Window(poll.req)) /\ poll'.next = [poll.req EXCEPT !.offset = after]
  BY <1>9, <1>10, LinkFound
<1>12. poll'.next.offset = after
  BY <1>1, <1>11 DEF Requests
<1>13. QED  BY <1>3, <1>11, <1>12

\* Every link goes forward in the list, as long as the owner does not link back,
\* and nothing but a fetch sets one.
THEOREM LinksEnd == Spec => [][LinksGoForward /\ LinksStay]_vars
<1>1. TypeOK /\ Asked /\ [Next]_vars => [LinksGoForward /\ LinksStay]_vars
  <2> SUFFICES ASSUME TypeOK, Asked, Next
               PROVE  LinksGoForward /\ LinksStay
    OBVIOUS
  <2>1. LinksGoForward
    <3>1. Cardinality(Window(poll.req)) \in Nat /\ Cardinality(Items) \in Nat
          /\ Cardinality(Window(poll.req)) <= Cardinality(Items)
      BY SizesAssumption, FS_Subset, FS_CardinalityType DEF Window
    <3> SUFFICES ASSUME Fetch, poll'.next # None, ~ back'
                 PROVE  /\ poll'.next = [poll.req EXCEPT !.offset = poll'.next.offset]
                        /\ Stand < poll'.next.offset
                        /\ poll'.next.offset < Cardinality(Window(poll.req))
                        /\ poll'.next.offset < Cardinality(Items)
      BY DEF LinksGoForward
    <3>2. /\ poll'.next = [poll.req EXCEPT !.offset = poll'.next.offset]
          /\ Stand < poll'.next.offset
          /\ poll'.next.offset < Cardinality(Window(poll.req))
      BY FetchGoesForward
    <3>3. poll'.next.offset \in Nat
      <4>1. poll'.next \in Requests \cup {None}
        BY FetchTypes
      <4>2. QED  BY <4>1 DEF Requests
    <3>4. QED  BY <3>1, <3>2, <3>3
  <2>2. LinksStay
    <3> SUFFICES ASSUME Reading, Reading', ~ Fetch PROVE poll'.next = poll.next
      BY DEF LinksStay
    <3>1. CASE Tick \/ Cancel \/ StartPoll
      BY <3>1 DEF Tick, Cancel, StartPoll
    <3>2. ASSUME NEW i \in Items, UpdateObject(i) \/ RemoveObject(i) PROVE poll'.next = poll.next
      BY <3>2 DEF UpdateObject, RemoveObject, Change, TypeOK, PollType
    <3>3. CASE FetchFails \/ Break
      BY <3>3 DEF FetchFails, Break, Reading, Idle
    <3>4. CASE Yield
      BY <3>4 DEF Yield, TypeOK, PollType
    <3>5. CASE EndOfPage
      <4>1. poll'.status # "done"
        BY DEF Reading
      <4>2. poll' = [poll EXCEPT !.status = "fetch"]
        BY <3>5, <4>1, IdleType DEF EndOfPage
      <4>3. QED  BY <4>2 DEF TypeOK, PollType
    <3>6. QED  BY <3>1, <3>2, <3>3, <3>4, <3>5 DEF Next
  <2>3. QED  BY <2>1, <2>2
<1>2. QED  BY <1>1, PaginationTypeCorrect, PTL DEF Spec
=============================================================================
