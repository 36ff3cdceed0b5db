------------------------------ MODULE Pagination ------------------------------
(***************************************************************************)
(* Reading a paginated list (core/pagination.go) while its owner changes   *)
(* it.  The owner keeps objects with the time of their last update and     *)
(* serves, through the generated list endpoint, a page of those updated    *)
(* within the requested window, with a Link to the next one.  The client   *)
(* asks for a window, runs Paginate over the pages, and once it has seen   *)
(* the end of the list asks for what was updated since.                    *)
(*                                                                         *)
(* The order and the slicing of the list are the owner's application, not  *)
(* part of the repository: by id and by offset here, which is what the     *)
(* endpoint's offset and limit suggest.  A page is the set of its objects, *)
(* yielded in the order of their ids.  Times are ticks, several to a       *)
(* second, because the query carries whole seconds.  An owner may also err *)
(* and link back to the first page, from any page, or never answer: the    *)
(* fetches of a list share a context, which the application may cancel.    *)
(***************************************************************************)
EXTENDS Naturals, Sequences, FiniteSets

CONSTANTS
    Items,            \* the ids of the owner's objects, numbers
    TicksPerSecond,
    PageSize,         \* the owner's largest page
    Limits,           \* the limits the client may ask for; 0: none given
    LinkForms,        \* the links of this owner: "plain", "comma", "back"
    None,
    MaxTime,          \* bound on the clock
    MaxPolls          \* bound on the number of lists read

ASSUME SizesAssumption ==
    /\ Items \subseteq Nat /\ IsFiniteSet(Items)
    /\ TicksPerSecond \in Nat \ {0} /\ PageSize \in Nat \ {0}
    /\ Limits \subseteq Nat
    /\ LinkForms \subseteq {"plain", "comma", "back"}

\* The requests on the wire: the query of a first one, or a next link's URL.
Requests == [from : Nat \cup {None}, to : Nat \cup {None}, offset : Nat, limit : Nat]

ASSUME NoneAssumption == None \notin Nat /\ None \notin Requests

VARIABLES
    now,
    updated,    \* for each object the time of its last update, 0: not there
    poll,       \* the list being read
    since,      \* up to when the client knows the list, None at first
    polls,      \* lists begun
    seen,       \* the version of each object the client was last given, 0: none
    left,       \* an object left a window while its pages were being read
    cancelled,  \* the context of the list's fetches is done
    back        \* a page of the list had a link back to the first one

list == <<cancelled, back>>
vars == <<now, updated, poll, since, polls, seen, left, list>>

-----------------------------------------------------------------------------
(* The wire.                                                               *)

\* Mutant of Seconds: times are rounded up.
SecondsUp(t) ==
    IF t = None THEN None
    ELSE ((t + TicksPerSecond - 1) \div TicksPerSecond) * TicksPerSecond

\* PageOpts.Query and ParsePageReq: times lose the fraction of their second,
\* unset fields stay unset, and an absent limit or offset reads as zero.
Seconds(t) == IF t = None THEN None ELSE (t \div TicksPerSecond) * TicksPerSecond

Query(from, to, limit) ==
    [from |-> Seconds(from), to |-> Seconds(to), offset |-> 0, limit |-> limit]

\* parseNextLink: the URL of the first link whose relation is "next".  The
\* header is cut at every comma, also one inside a URL, whose link is then
\* not recognized.
ParseNextLink(links) ==
    LET next == {n \in DOMAIN links : links[n].rel = "next" /\ links[n].form # "comma"}
    IN  IF next = {} THEN None
        ELSE links[CHOOSE n \in next : \A m \in next : n <= m].url

-----------------------------------------------------------------------------
(* The owner.                                                              *)

Selects(req, time) ==
    /\ time # 0
    /\ req.from # None => time >= req.from
    /\ req.to # None => time < req.to

InWindow(req, i) == Selects(req, updated[i])

Window(req) == {i \in Items : InWindow(req, i)}

\* How many objects of the list come before one.
Position(req, i) == Cardinality({j \in Window(req) : j < i})

\* The page a request gets and the links of its answer: one to what follows
\* the page, or one back to the list's start.
Serve(req, form) ==
    LET size  == IF req.limit = 0 \/ req.limit > PageSize THEN PageSize ELSE req.limit
        after == req.offset + size
        page  == {i \in Window(req) : Position(req, i) >= req.offset /\ Position(req, i) < after}
        to    == IF form = "back" THEN 0 ELSE after
    IN  [items |-> {<<i, updated[i]>> : i \in page},
         links |-> IF form = "back" \/ after < Cardinality(Window(req))
                   THEN << [rel |-> "next", url |-> [req EXCEPT !.offset = to], form |-> form] >>
                   ELSE <<>>]

-----------------------------------------------------------------------------
(* The client.                                                             *)

Idle == [status |-> "idle", req |-> None, to |-> None, page |-> {}, next |-> None,
         got |-> [i \in Items |-> 0], entered |-> FALSE]

Init ==
    /\ now = TicksPerSecond
    /\ updated = [i \in Items |-> 0]
    /\ poll = Idle /\ since = None /\ polls = 0
    /\ seen = [i \in Items |-> 0] /\ left = FALSE
    /\ cancelled = FALSE /\ back = FALSE

Reading == poll.status \in {"fetch", "yield"}

Tick ==
    /\ now < MaxTime
    /\ now' = now + 1
    /\ UNCHANGED <<updated, poll, since, polls, seen, left, list>>

\* An object is created, updated or removed.
Change(i, time) ==
    /\ updated[i] # time
    /\ updated' = [updated EXCEPT ![i] = time]
    /\ left' = (left \/ (Reading /\ InWindow(poll.req, i) /\ ~ Selects(poll.req, time)))
    /\ poll' = [poll EXCEPT !.entered =
                   @ \/ (Reading /\ ~ InWindow(poll.req, i) /\ Selects(poll.req, time))]
    /\ UNCHANGED <<now, since, polls, seen, list>>

UpdateObject(i) == Change(i, now)
RemoveObject(i) == Change(i, 0)

\* The client asks for what was updated since it last reached the end of the
\* list, up to now or without an end.
StartPoll ==
    /\ ~ Reading /\ polls < MaxPolls
    /\ polls' = polls + 1
    /\ \E limit \in Limits, to \in {now, None} :
        poll' = [Idle EXCEPT !.status = "fetch", !.to = now,
                             !.req = Query(since, to, limit)]
    /\ UNCHANGED <<now, updated, since, seen, left, list>>

\* The application cancels the context its fetch function hands to the calls.
Cancel ==
    /\ Reading /\ ~ cancelled
    /\ cancelled' = TRUE
    /\ UNCHANGED <<now, updated, poll, since, polls, seen, left, back>>

\* Paginate: fetch("") asks for the initial request, fetch(next) for a link.
\* An http.Client answers no call whose context is done.
Fetch ==
    /\ poll.status = "fetch" /\ ~ cancelled
    /\ \E form \in LinkForms :
        LET page == Serve(IF poll.next = None THEN poll.req ELSE poll.next, form)
        IN  /\ poll' = [poll EXCEPT !.status = "yield", !.page = page.items,
                                    !.next = ParseNextLink(page.links)]
            /\ back' = (back \/ form = "back")
    /\ UNCHANGED <<now, updated, since, polls, seen, left, cancelled>>

\* Mutant of FetchFails: the page is asked for again.
FetchFailsAgain ==
    /\ poll.status = "fetch"
    /\ UNCHANGED vars

\* The next list has a context and links of its own.
Forget == cancelled' = FALSE /\ back' = FALSE

\* The error is yielded, and the iteration is over.
FetchFails ==
    /\ poll.status = "fetch"
    /\ poll' = Idle /\ Forget
    /\ UNCHANGED <<now, updated, since, polls, seen, left>>

\* The body is given the first item of the page that it has not had.
Given(item) ==
    /\ poll.status = "yield"
    /\ item \in poll.page /\ \A other \in poll.page : item[1] <= other[1]
    /\ seen' = [seen EXCEPT ![item[1]] = item[2]]

\* One item is yielded to the loop's body, which goes on.
Yield ==
    /\ \E item \in poll.page :
        /\ Given(item)
        /\ poll' = [poll EXCEPT !.page = @ \ {item},
                                 !.got[item[1]] = IF @ = 2 THEN 2 ELSE @ + 1]
    /\ UNCHANGED <<now, updated, since, polls, left, list>>

\* The loop's body breaks out of the range.
Break ==
    /\ \E item \in poll.page : Given(item)
    /\ poll' = Idle /\ Forget
    /\ UNCHANGED <<now, updated, since, polls, left>>

\* Mutant of EndOfPage: the URL of the page before is kept.
EndOfPageKeepingURL ==
    /\ poll.status = "yield" /\ poll.page = {}
    /\ \/ poll.next # None /\ poll' = [poll EXCEPT !.status = "fetch", !.next = None]
          /\ UNCHANGED <<since, list>>
       \/ poll.next = None /\ since' = poll.to /\ poll' = [Idle EXCEPT !.status = "done"] /\ Forget
    /\ UNCHANGED <<now, updated, polls, seen, left>>

\* After the last item of a page: the next page, or the end of the list.
EndOfPage ==
    /\ poll.status = "yield" /\ poll.page = {}
    /\ \/ /\ poll.next # None
          /\ poll' = [poll EXCEPT !.status = "fetch"]
          /\ UNCHANGED <<since, list>>
       \/ /\ poll.next = None
          /\ poll' = [Idle EXCEPT !.status = "done"]
          /\ since' = poll.to /\ Forget
    /\ UNCHANGED <<now, updated, polls, seen, left>>

Next ==
    \/ Tick
    \/ \E i \in Items : UpdateObject(i) \/ RemoveObject(i)
    \/ StartPoll \/ Cancel \/ Fetch \/ FetchFails \/ Yield \/ Break \/ EndOfPage

\* The iterator runs on its own once started, the loop's body returns, and a
\* call whose context is done fails.  Nothing makes the owner answer, and
\* nothing but the context ends a call it does not answer.
Spec ==
    /\ Init /\ [][Next]_vars
    /\ WF_vars(Yield \/ Break \/ EndOfPage \/ (cancelled /\ FetchFails))

-----------------------------------------------------------------------------
(* An iteration that came to its end without an error has yielded every    *)
(* object of the window, over however many pages, and the next window      *)
(* begins where it ended: as long as no object leaves a window that is     *)
(* being read, the client has been given the current version of every      *)
(* object it does not still have to ask for.  Failed iterations and loops  *)
(* that break do not count as an end; rounding to seconds leaves no gap    *)
(* between two windows.                                                    *)
NothingMissed ==
    ~ left /\ since # None =>
        \A i \in Items :
            updated[i] # 0 /\ updated[i] < Seconds(since) => seen[i] = updated[i]

(* Paginate promises "an iterator over every item across all pages"        *)
(* (core/pagination.go:132-135): a list that nothing leaves is yielded to  *)
(* its end.                                                                *)
EveryItemAcrossAllPages ==
    [][Reading /\ poll'.status = "done" /\ ~ left /\ ~ poll.entered =>
        \A i \in Items : InWindow(poll.req, i) => poll.got[i] > 0]_vars

(* Within one list an object is yielded twice only if one entered the      *)
(* window while its pages were being read, or the owner linked back.       *)
RepeatedOnlyAfterGrowth ==
    ~ poll.entered /\ ~ back => \A i \in Items : poll.got[i] < 2

(* A list whose context is cancelled comes to an end, also when its links  *)
(* lead in a circle, when it changes all the time or when the owner does   *)
(* not answer.  Otherwise Paginate follows the links for as long as there  *)
(* is one and waits for as long as its fetch does.                         *)
CancelledListsEnd == (Reading /\ cancelled) ~> ~ Reading
=============================================================================
