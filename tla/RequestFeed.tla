------------------------------ MODULE RequestFeed ------------------------------
(***************************************************************************)
(* What one reader is shown of the requests: the list that the client      *)
(* pages through (RequestsController.findAll, with coordinates or without),*)
(* the details of a request (findOne) with the log of who saw them, and    *)
(* the reader's bookmarks.                                                 *)
(*                                                                         *)
(* A list is read with LIMIT and OFFSET, newest first; request n is the    *)
(* n-th that was made.  With coordinates it is read by distance instead,   *)
(* from all requests there are.  A clearance is known by its rank.  The    *)
(* filters the reader may set, the distances themselves, the locations,    *)
(* the counts of tasks and the marks of organisations are left out.        *)
(***************************************************************************)
EXTENDS Calls

CONSTANTS
    MaxRequests,    \* bound on the requests
    Ranks,          \* ranks of clearance in use; 2 is FRONTLINE
    PageLimit       \* "limit" of the list

ASSUME FeedAssumption ==
    /\ MaxRequests \in Nat /\ PageLimit \in Nat \ {0}
    /\ Ranks \subseteq 0..2

VARIABLES
    posts,      \* the rows of "requests"
    reader,     \* the reader's row of "users"
    feed,       \* the client that pages through the list
    views,      \* the reader's rows of "access_logs"
    bookmarks   \* the reader's rows of "saved_requests"

feedVars == <<posts, reader, feed, views, bookmarks>>

PostId == 1..MaxRequests
PostRow == [live : BOOLEAN, own : BOOLEAN, required : Ranks]
ReaderRow == [role : {"volunteer", "requester", "coordinator", "admin"}, rank : Ranks]
ViewRow == [post : PostId, clearanceAtAccess : Ranks]

\* near: with coordinates; shown: what the pages had; steady: what was on the list
\* from the first page on; gone: how many requests have left the list since.
FeedState == [at : {"closed", "paging", "complete"}, near : BOOLEAN,
              offset : 0..(MaxRequests * PageLimit),
              shown : SUBSET PostId, steady : SUBSET PostId, gone : 0..MaxRequests]

FeedMethod == {"findOne", "saveRequest"}
\* rank: the reader's, when the call was let in.
FeedCall == [op : FeedMethod, step : {"open", "log", "bookmark"}, alone : BOOLEAN,
             post : PostId, rank : Ranks]

FeedTypeOK ==
    /\ posts \in UNION {[1..n -> PostRow] : n \in 0..MaxRequests}
    /\ reader \in ReaderRow
    /\ feed \in FeedState
    /\ views \subseteq ViewRow
    /\ bookmarks \subseteq PostId
    /\ \A h \in Handlers :
           InFlight(h) /\ call[h].op \in FeedMethod => call[h] \in FeedCall

-----------------------------------------------------------------------------
(* Who is shown what *)

LivePosts == {n \in DOMAIN posts : posts[n].live}

RankSuffices(n, rank) == posts[n].required <= rank

getMyRequests == {n \in LivePosts : posts[n].own}

\* Without coordinates; administrators are shown everything.
getRequestsWithPriority ==
    {n \in LivePosts : reader.role = "admin" \/ RankSuffices(n, reader.rank)}

\* Someone who asks for help sees his own requests, whatever they require.
Listed == IF reader.role = "requester" THEN getMyRequests ELSE getRequestsWithPriority

\* By distance: the query has no clause about clearance or status.
getRequestsByDistance == LivePosts

\* Mutant: whoever can name it may open it.
AnybodyMayOpen(n, rank) == TRUE

\* checkClearanceAccess(): it makes no exception for the author.
MayOpen(n, rank) == reader.role \in {"admin", "coordinator"} \/ posts[n].required <= rank

-----------------------------------------------------------------------------
(* The requests and the reader change *)

Minus(n) == IF feed.gone + n > MaxRequests THEN MaxRequests ELSE feed.gone + n

\* The list is now another one: what left it is counted, where there is an order.
Relisted ==
    feed' = IF feed.at = "paging" /\ ~feed.near
            THEN [feed EXCEPT !.steady = @ \cap Listed',
                              !.gone = Minus(Cardinality(Listed \ Listed'))]
            ELSE feed

createPost(own, required) ==
    /\ Cardinality(DOMAIN posts) < MaxRequests
    /\ posts' = [n \in 1..(Cardinality(DOMAIN posts) + 1) |->
                    IF n \in DOMAIN posts THEN posts[n]
                    ELSE [live |-> TRUE, own |-> own, required |-> required]]
    /\ UNCHANGED <<reader, views, bookmarks>>
    /\ Relisted
    /\ Disturbs

updatePost(n, required) ==
    /\ n \in LivePosts /\ posts[n].required # required
    /\ posts' = [posts EXCEPT ![n].required = required]
    /\ UNCHANGED <<reader, views, bookmarks>>
    /\ Relisted
    /\ Disturbs

removePost(n) ==
    /\ n \in LivePosts
    /\ posts' = [posts EXCEPT ![n].live = FALSE]
    /\ UNCHANGED <<reader, views, bookmarks>>
    /\ Relisted
    /\ Disturbs

\* recalculateClearance, updateClearance.
SetRank(rank) ==
    /\ reader.rank # rank
    /\ reader' = [reader EXCEPT !.rank = rank]
    /\ UNCHANGED <<posts, views, bookmarks>>
    /\ Relisted
    /\ Disturbs

-----------------------------------------------------------------------------
(* Paging *)

\* ORDER BY created_at DESC LIMIT PageLimit OFFSET offset.
Newer(n) == Cardinality({m \in Listed : m > n})
Page(offset) == {n \in Listed : offset <= Newer(n) /\ Newer(n) < offset + PageLimit}

OpenFeed(near) ==
    /\ feed.at = "closed" /\ (near => reader.role # "requester")
    /\ feed' = [at |-> "paging", near |-> near, offset |-> 0, shown |-> {},
                steady |-> Listed, gone |-> 0]
    /\ UNCHANGED <<posts, reader, views, bookmarks, flight>>

\* Mutant: the next page begins one request late.
OffsetOneLate(offset) == offset + PageLimit + 1

NextOffset(offset) == offset + PageLimit

\* A page that is not full is the last.
Shows(page) ==
    LET full == Cardinality(page) = PageLimit IN
    feed' = [feed EXCEPT !.shown = @ \cup page,
                         !.at = IF full THEN "paging" ELSE "complete",
                         !.offset = IF full THEN NextOffset(feed.offset) ELSE feed.offset]

findAll ==
    /\ feed.at = "paging" /\ ~feed.near
    /\ Shows(Page(feed.offset))
    /\ UNCHANGED <<posts, reader, views, bookmarks, flight>>

\* ORDER BY distance ASC NULLS LAST puts requests at one place, and those without
\* any, in no order: a page has the right size, and each query may have others on it.
FillsPage(page, offset) ==
    LET all == Cardinality(getRequestsByDistance)
        rest == IF offset < all THEN all - offset ELSE 0
    IN  Cardinality(page) = IF rest < PageLimit THEN rest ELSE PageLimit

findAllNear ==
    /\ feed.at = "paging" /\ feed.near
    /\ \E page \in SUBSET getRequestsByDistance :
          FillsPage(page, feed.offset) /\ Shows(page)
    /\ UNCHANGED <<posts, reader, views, bookmarks, flight>>

-----------------------------------------------------------------------------
(* Details and bookmarks *)

FeedCalling(op, step, n) ==
    [op |-> op, step |-> step, alone |-> TRUE, post |-> n, rank |-> reader.rank]

\* The reader was loaded with the token; the request is read next.
findOne(h, n) ==
    /\ n \in LivePosts
    /\ Begin(h, FeedCalling("findOne", "open", n))
    /\ UNCHANGED feedVars

\* FRONTLINE requests of others are logged.
Logs(n) == posts[n].required = 2 /\ ~posts[n].own

OpenPost(h) ==
    LET c == call[h] IN
    /\ At(h, "open")
    /\ Becomes(h, IF posts[c.post].live /\ MayOpen(c.post, c.rank) /\ Logs(c.post)
                  THEN [c EXCEPT !.step = "log"] ELSE Idle)
    /\ UNCHANGED feedVars

logAccess(h) ==
    /\ At(h, "log")
    /\ views' = views \cup {[post |-> call[h].post, clearanceAtAccess |-> call[h].rank]}
    /\ WritesAndBecomes(h, Idle)
    /\ UNCHANGED <<posts, reader, feed, bookmarks>>

saveRequest(h, n) ==
    /\ n \in DOMAIN posts \ bookmarks
    /\ Begin(h, FeedCalling("saveRequest", "bookmark", n))
    /\ UNCHANGED feedVars

\* UNIQUE(user_id, request_id).
InsertBookmark(h) ==
    /\ At(h, "bookmark") /\ call[h].post \notin bookmarks
    /\ bookmarks' = bookmarks \cup {call[h].post}
    /\ WritesAndBecomes(h, Idle)
    /\ UNCHANGED <<posts, reader, feed, views>>

unsaveRequest(n) ==
    /\ n \in bookmarks
    /\ bookmarks' = bookmarks \ {n}
    /\ Disturbs
    /\ UNCHANGED <<posts, reader, feed, views>>

\* A failure to log is swallowed.
FailFeedCall(h) ==
    /\ InFlight(h) /\ call[h].op \in FeedMethod
    /\ Becomes(h, Idle)
    /\ UNCHANGED feedVars

-----------------------------------------------------------------------------

FeedInit ==
    /\ posts = <<>> /\ views = {} /\ bookmarks = {}
    /\ reader \in ReaderRow
    /\ feed = [at |-> "closed", near |-> FALSE, offset |-> 0, shown |-> {}, steady |-> {}, gone |-> 0]

PostsNext ==
    \/ \E n \in DOMAIN posts, required \in Ranks : updatePost(n, required)
    \/ \E n \in DOMAIN posts : removePost(n)
    \/ \E rank \in Ranks : SetRank(rank)

\* Bound: only what the reader might list is made while he pages.
PagingNext ==
    \/ \E required \in Ranks : createPost(reader.role = "requester", required)
    \/ \E near \in BOOLEAN : OpenFeed(near)
    \/ PostsNext \/ findAll \/ findAllNear

\* Bound: of two requests.
ViewsNext ==
    \/ \E own \in BOOLEAN, required \in Ranks :
          Cardinality(DOMAIN posts) < 2 /\ createPost(own, required)
    \/ PostsNext
    \/ \E h \in Handlers :
          \/ \E n \in DOMAIN posts : findOne(h, n) \/ saveRequest(h, n)
          \/ OpenPost(h) \/ logAccess(h) \/ InsertBookmark(h) \/ FailFeedCall(h)
    \/ \E n \in DOMAIN posts : unsaveRequest(n)

FeedSpec == FeedInit /\ CallsInit /\ [][PagingNext \/ ViewsNext]_<<feedVars, flight>>

-----------------------------------------------------------------------------
(* Properties *)

\* Whoever pages through the list to its end was shown all that was on it the whole
\* time, but for one request at most for each that left the list meanwhile (findAll
\* with limit and offset, without coordinates: by distance nothing of the kind holds).
PagingMissesFew ==
    feed.at = "complete" /\ ~feed.near =>
        Cardinality(feed.steady \ feed.shown) <= feed.gone

\* The log of visits names nobody who had no clearance for a FRONTLINE request when
\* he was let in, and no author (findOne, logAccess).
LogNamesVisitors ==
    \A v \in views :
        /\ ~posts[v.post].own
        /\ reader.role \in {"admin", "coordinator"} \/ v.clearanceAtAccess = 2

=============================================================================
