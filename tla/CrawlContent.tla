---------------------------- MODULE CrawlContent ----------------------------
(***************************************************************************)
(* What a crawl does between taking a job and marking its outcome:         *)
(* handleJob of crawler/jobs.go, with CrawlSubreddit, CrawlComments and    *)
(* the discovery of further subreddits.  The rows of the queue itself and  *)
(* the outcomes are in JobQueue; two crawls of one subreddit run at once   *)
(* when a reset gave a job away or a subreddit is listed in two spellings. *)
(*                                                                         *)
(* Comments are numbered as the parsed answer lists them, each before its  *)
(* replies.  No thread is longer than one answer.  Any statement and any   *)
(* request may fail, a process may die at any step, and authors delete     *)
(* what they wrote while their threads are crawled.  Texts, numbers and    *)
(* the users who are authors of posts are left out.                        *)
(***************************************************************************)
EXTENDS Integers, FiniteSetsExt

CONSTANTS Crawlers,     \* the crawler processes, one worker in each
          Posts,        \* the posts of the subreddit that is crawled
          PostOf,       \* the post of a comment
          Parent,       \* the comment it replies to, 0 for its post
          Author,       \* who wrote it
          OtherSubs,    \* further subreddits
          MaxPosts,     \* MAX_POSTS_PER_SUB
          MaxDepth,     \* MAX_COMMENT_DEPTH
          MaxEnqueue,   \* USER_SUB_ENQUEUE_MAX
          MaxCrawls     \* bound: crawls that are started

Comments == DOMAIN PostOf

ASSUME ContentAssumption ==
  /\ Comments \subseteq Nat \ {0} /\ Parent \in [Comments -> Comments \cup {0}]
  /\ \A c \in Comments : Parent[c] < c
  /\ \A c \in Comments : Parent[c] # 0 => PostOf[Parent[c]] = PostOf[c]
  /\ DOMAIN Author = Comments
  /\ MaxPosts \in Nat /\ MaxDepth \in Nat /\ MaxEnqueue \in Nat \ {0} /\ MaxCrawls \in Nat

(***************************************************************************)
(* posts, comments, users, subreddits, jobs: the rows of those tables.     *)
(* deleted: the comments whose authors deleted them at Reddit.             *)
(* seen: the authors each process has looked up, in memory only.           *)
(* crawl: the job of each process.  thread: the post whose comments it     *)
(* stores; there fetched is what Reddit answered, and missed remembers     *)
(* whether a statement failed.                                             *)
(***************************************************************************)
VARIABLES posts, comments, users, subreddits, jobs, deleted, seen, crawl, thread, crawls

tableVars   == <<posts, comments, users>>
queueVars   == <<subreddits, jobs>>
memoryVars  == <<seen, thread, crawls>>
contentVars == <<tableVars, queueVars, deleted, crawl, memoryVars>>

NoThread == [fetched |-> {}, rest |-> {}, inserted |-> {}, pending |-> {}, missed |-> FALSE]
NoCrawl  == [pc |-> "idle", posts |-> {}, left |-> {}, stored |-> {}, authors |-> {},
             found |-> {}, sub |-> {}, count |-> 0]

Authors == {Author[c] : c \in Comments}

CrawlType ==
  [pc : {"idle", "listing", "posts", "comments", "thread", "authors", "queue", "mentions"},
   posts : SUBSET Posts, left : SUBSET Posts, stored : SUBSET Posts, authors : SUBSET Authors,
   found : SUBSET OtherSubs, sub : SUBSET OtherSubs, count : 0 .. MaxEnqueue - 1]

ThreadType ==
  [fetched : SUBSET Comments, rest : SUBSET Comments, inserted : SUBSET Comments,
   pending : SUBSET Comments, missed : BOOLEAN]

ContentTypeOK ==
  /\ posts \subseteq Posts /\ comments \subseteq Comments /\ deleted \subseteq Comments
  /\ users \subseteq Authors
  /\ jobs \subseteq subreddits /\ subreddits \subseteq OtherSubs
  /\ seen \in [Crawlers -> SUBSET Authors]
  /\ crawl \in [Crawlers -> CrawlType]
  /\ thread \in [Crawlers -> ThreadType]
  /\ crawls \in 0 .. MaxCrawls

At(k, pc) == crawl[k].pc = pc

-----------------------------------------------------------------------------
(* Posts.                                                                  *)

\* The job is marked as started, its subreddit read, and about asked for.
HandleJob(k) ==
  /\ At(k, "idle") /\ crawls < MaxCrawls /\ crawls' = crawls + 1
  /\ crawl' = [crawl EXCEPT ![k].pc = "listing"]
  /\ UNCHANGED <<tableVars, queueVars, deleted, seen, thread>>

\* A page of the listing.  A later one may repeat posts.
FetchPage(k) ==
  /\ At(k, "listing") /\ Cardinality(crawl[k].posts) < MaxPosts
  /\ \E page \in SUBSET Posts :
       /\ Cardinality(crawl[k].posts \cup page) <= MaxPosts
       /\ crawl' = [crawl EXCEPT ![k].posts = @ \cup page]
  /\ UNCHANGED <<tableVars, queueVars, deleted, memoryVars>>

\* There are enough posts or no further page, and the subreddit's row is
\* updated.
ListingDone(k) ==
  /\ At(k, "listing")
  /\ crawl' = [crawl EXCEPT ![k].pc = "posts", ![k].left = crawl[k].posts]
  /\ UNCHANGED <<tableVars, queueVars, deleted, memoryVars>>

\* A post whose author is gone is skipped, and so is one whose statements fail.
CrawlAndStorePosts(k) ==
  /\ At(k, "posts")
  /\ \E p \in crawl[k].left :
       \/ /\ posts' = posts \cup {p}
          /\ crawl' = [crawl EXCEPT ![k].left = @ \ {p}, ![k].stored = @ \cup {p}]
       \/ crawl' = [crawl EXCEPT ![k].left = @ \ {p}] /\ UNCHANGED posts
  /\ UNCHANGED <<comments, users, queueVars, deleted, memoryVars>>

PostsDone(k) ==
  /\ At(k, "posts") /\ crawl[k].left = {}
  /\ crawl' = [crawl EXCEPT ![k].pc = "comments", ![k].left = crawl[k].posts]
  /\ UNCHANGED <<tableVars, queueVars, deleted, memoryVars>>

-----------------------------------------------------------------------------
(* Comments.                                                               *)

Ancestors[c \in Comments] ==
  IF Parent[c] = 0 THEN {} ELSE {Parent[c]} \cup Ancestors[Parent[c]]

\* The replies below a comment that is deleted are kept, those that are too
\* deep are not.
ParseComments(S) == {c \in S : c \notin deleted /\ Cardinality(Ancestors[c]) <= MaxDepth}

\* Reddit answers a thread or a part of it, top down.
Answers(p) ==
  {S \in SUBSET {c \in Comments : PostOf[c] = p} : \A c \in S : Ancestors[c] \subseteq S}

\* A post that was not stored has no comments fetched.
CrawlComments(k) ==
  /\ At(k, "comments")
  /\ \E p \in crawl[k].left \cap crawl[k].stored, S \in SUBSET Comments :
       /\ S \in Answers(p)
       /\ thread' = [thread EXCEPT ![k] = [NoThread EXCEPT !.fetched = ParseComments(S),
                                                          !.rest = ParseComments(S)]]
       /\ crawl' = [crawl EXCEPT ![k].pc = "thread", ![k].left = @ \ {p}]
  /\ UNCHANGED <<tableVars, queueVars, deleted, seen, crawls>>

SkipPost(k) ==
  /\ At(k, "comments")
  /\ \E p \in crawl[k].left : crawl' = [crawl EXCEPT ![k].left = @ \ {p}]
  /\ UNCHANGED <<tableVars, queueVars, deleted, memoryVars>>

\* Mutant of the next: the first pass does not look for the parent.
InsertableAlways(c, inserted) == TRUE

\* A reply to the post, or to a comment this crawl has inserted.
Insertable(c, inserted) == Parent[c] = 0 \/ Parent[c] \in inserted

\* Mutant of the next: the thread is taken bottom up.
IsLast(c, rest) == c \in rest /\ \A d \in rest : d <= c

IsNext(c, rest) == c \in rest /\ \A d \in rest : c <= d

\* The statement for comment c of this pass succeeds, or fails.
Insert(k, c, pass) ==
  \/ /\ comments' = comments \cup {c}
     /\ thread' = [thread EXCEPT ![k][pass] = @ \ {c}, ![k].inserted = @ \cup {c}]
  \/ /\ thread' = [thread EXCEPT ![k][pass] = @ \ {c}, ![k].missed = TRUE]
     /\ UNCHANGED comments

\* The first pass: a comment with its user, which is stored even when the
\* comment has to wait or fails.
FirstPass(k) ==
  /\ At(k, "thread")
  /\ \E c \in thread[k].rest :
       /\ IsNext(c, thread[k].rest)
       /\ \/ /\ thread' = [thread EXCEPT ![k].rest = @ \ {c}, ![k].missed = TRUE]
             /\ UNCHANGED <<comments, users, crawl>>
          \/ /\ users' = users \cup {Author[c]}
             /\ crawl' = [crawl EXCEPT ![k].authors = @ \cup {Author[c]}]
             /\ \/ Insertable(c, thread[k].inserted) /\ Insert(k, c, "rest")
                \/ /\ ~Insertable(c, thread[k].inserted)
                   /\ thread' = [thread EXCEPT ![k].rest = @ \ {c}, ![k].pending = @ \cup {c}]
                   /\ UNCHANGED comments
  /\ UNCHANGED <<posts, queueVars, deleted, seen, crawls>>

\* The second pass, over what is pending in any order.
SecondPass(k) ==
  /\ At(k, "thread") /\ thread[k].rest = {}
  /\ \E c \in thread[k].pending :
       IF Parent[c] \in thread[k].inserted
       THEN Insert(k, c, "pending")
       ELSE thread' = [thread EXCEPT ![k].pending = @ \ {c}] /\ UNCHANGED comments
  /\ UNCHANGED <<posts, users, queueVars, deleted, seen, crawl, crawls>>

ThreadDone(k) == At(k, "thread") /\ thread[k].rest = {} /\ thread[k].pending = {}

NextPost(k) ==
  /\ ThreadDone(k)
  /\ crawl' = [crawl EXCEPT ![k].pc = "comments"]
  /\ thread' = [thread EXCEPT ![k] = NoThread]
  /\ UNCHANGED <<tableVars, queueVars, deleted, seen, crawls>>

-----------------------------------------------------------------------------
(* Discovery.                                                              *)

FetchForAuthors(k) ==
  /\ At(k, "comments") /\ crawl[k].left = {}
  /\ crawl' = [crawl EXCEPT ![k].pc = "authors", ![k].posts = {}, ![k].stored = {}]
  /\ UNCHANGED <<tableVars, queueVars, deleted, memoryVars>>

\* The listing of a user, the search, and the public listing: the first that
\* answers a list gives it, an answer of 401, 403 or 404 or one that does not
\* parse passes on to the next, anything else is an error, which gives none.
FetchRecentUserSubreddits == SUBSET OtherSubs

\* An author is marked as seen before the lookup, so one that fails is not
\* tried again.
ShouldFetchForUser(k) ==
  /\ At(k, "authors")
  /\ \E a \in crawl[k].authors, S \in FetchRecentUserSubreddits :
       /\ seen' = [seen EXCEPT ![k] = @ \cup {a}]
       /\ crawl' = [crawl EXCEPT ![k].pc = "queue", ![k].authors = @ \ {a},
                      ![k].found = IF a \in seen[k] THEN {} ELSE S]
  /\ UNCHANGED <<tableVars, queueVars, deleted, thread, crawls>>

\* EnsureSubreddit and CrawlJobExists.
QueueUserSubreddit(k) ==
  /\ At(k, "queue") /\ crawl[k].sub = {}
  /\ \E s \in crawl[k].found :
       \/ /\ subreddits' = subreddits \cup {s}
          /\ crawl' = [crawl EXCEPT ![k].found = @ \ {s}, ![k].sub = {s} \ jobs]
       \/ crawl' = [crawl EXCEPT ![k].found = @ \ {s}] /\ UNCHANGED subreddits
  /\ UNCHANGED <<tableVars, jobs, deleted, memoryVars>>

\* EnqueueCrawlJob, which is no error when another crawler was faster.  Enough
\* is enough for this user.
EnqueueUserSubreddit(k) ==
  /\ At(k, "queue") /\ crawl[k].sub # {}
  /\ \/ /\ jobs' = jobs \cup crawl[k].sub
        /\ IF crawl[k].count + 1 < MaxEnqueue
           THEN crawl' = [crawl EXCEPT ![k].sub = {}, ![k].count = @ + 1]
           ELSE crawl' = [crawl EXCEPT ![k].sub = {}, ![k].found = {}]
     \/ crawl' = [crawl EXCEPT ![k].sub = {}] /\ UNCHANGED jobs
  /\ UNCHANGED <<tableVars, subreddits, deleted, memoryVars>>

NextAuthor(k) ==
  /\ At(k, "queue") /\ crawl[k].sub = {} /\ crawl[k].found = {}
  /\ crawl' = [crawl EXCEPT ![k].pc = "authors", ![k].count = 0]
  /\ UNCHANGED <<tableVars, queueVars, deleted, memoryVars>>

\* The subreddits the posts mention, without a limit.
ExtractMentions(k) ==
  /\ At(k, "authors") /\ crawl[k].authors = {}
  /\ \E S \in SUBSET OtherSubs :
       crawl' = [crawl EXCEPT ![k].pc = "mentions", ![k].found = S]
  /\ UNCHANGED <<tableVars, queueVars, deleted, memoryVars>>

EnqueueLinkedSubreddits(k) ==
  /\ At(k, "mentions")
  /\ \E s \in crawl[k].found :
       /\ crawl' = [crawl EXCEPT ![k].found = @ \ {s}]
       /\ \/ subreddits' = subreddits \cup {s} /\ jobs' = jobs \cup {s}
          \/ subreddits' = subreddits \cup {s} /\ UNCHANGED jobs
          \/ UNCHANGED queueVars
  /\ UNCHANGED <<tableVars, deleted, memoryVars>>

-----------------------------------------------------------------------------
\* The job is done, or failed in one of the statements and requests before the
\* posts.
CrawlEnds(k) ==
  /\ At(k, "listing") \/ (At(k, "mentions") /\ crawl[k].found = {})
  /\ crawl' = [crawl EXCEPT ![k] = NoCrawl]
  /\ UNCHANGED <<tableVars, queueVars, deleted, memoryVars>>

\* The process dies and is started again.
Restart(k) ==
  /\ ~At(k, "idle")
  /\ crawl' = [crawl EXCEPT ![k] = NoCrawl]
  /\ thread' = [thread EXCEPT ![k] = NoThread]
  /\ seen' = [seen EXCEPT ![k] = {}]
  /\ UNCHANGED <<tableVars, queueVars, deleted, crawls>>

\* An author deletes a comment, the account or the text.
DeleteComment ==
  /\ \E c \in Comments \ deleted : deleted' = deleted \cup {c}
  /\ UNCHANGED <<tableVars, queueVars, crawl, memoryVars>>

ContentInit ==
  /\ posts = {} /\ comments = {} /\ users = {} /\ subreddits = {} /\ jobs = {}
  /\ deleted = {} /\ crawls = 0
  /\ seen = [k \in Crawlers |-> {}]
  /\ crawl = [k \in Crawlers |-> NoCrawl]
  /\ thread = [k \in Crawlers |-> NoThread]

ContentStep(k) ==
  \/ HandleJob(k) \/ FetchPage(k) \/ ListingDone(k) \/ CrawlAndStorePosts(k) \/ PostsDone(k)
  \/ CrawlComments(k) \/ SkipPost(k) \/ FirstPass(k) \/ SecondPass(k) \/ NextPost(k)
  \/ FetchForAuthors(k) \/ ShouldFetchForUser(k) \/ QueueUserSubreddit(k)
  \/ EnqueueUserSubreddit(k) \/ NextAuthor(k) \/ ExtractMentions(k)
  \/ EnqueueLinkedSubreddits(k) \/ CrawlEnds(k) \/ Restart(k)

ContentNext == DeleteComment \/ \E k \in Crawlers : ContentStep(k)

ContentSpec == ContentInit /\ [][ContentNext]_contentVars

-----------------------------------------------------------------------------
(* Properties.                                                             *)

\* Every reply that is stored has what it replies to stored, and its author.
RepliesHaveParents ==
  \A c \in comments :
    /\ Author[c] \in users
    /\ Parent[c] = 0 \/ Parent[c] \in comments

\* A thread none of whose statements failed is stored but for what hangs below
\* a comment that Reddit no longer shows.
NothingLeftOut ==
  \A k \in Crawlers :
    ThreadDone(k) /\ ~thread[k].missed =>
      \A c \in thread[k].fetched : Insertable(c, thread[k].inserted) => c \in comments

\* However crawls of the same threads overlap, fail and die, and authors delete
\* what they wrote, the stored threads hang together, and undisturbed crawls
\* are complete.
ThreadsAreWhole == RepliesHaveParents /\ NothingLeftOut
=============================================================================
