-------------------------------- MODULE Blackboard --------------------------------
(***************************************************************************)
(* The blackboard zomes: post strips what looks sensitive, the integrity   *)
(* zome refuses what is left of it, and the reads return posts until their *)
(* time to live is over.                                                   *)
(*                                                                         *)
(* A content is how often it holds each sensitive pattern.  strip_pii      *)
(* replaces the first occurrence: of some patterns by a text that still    *)
(* holds the pattern (Kept: "api_key=" by "api_key=[REDACTED]"), of the    *)
(* others by one that does not (Erased: "password", "/home/").  A text     *)
(* whose length changes in lower case moves the cut: the call traps or     *)
(* leaves the pattern.                                                     *)
(***************************************************************************)
EXTENDS Integers, Sequences, FiniteSets, SequencesExt

CONSTANTS
  Author,    (* agents                                                      *)
  Tag,       (* tags, as stored: trimmed and in lower case                  *)
  Prefix,    (* the prefixes a post may have                                *)
  BadPrefix, (* any other one                                               *)
  Kept, Erased,  (* sensitive patterns                                      *)
  MaxTtl,    (* longest time to live, in ticks: 168 h                       *)
  Page,      (* POSTS_PER_PAGE: 50                                          *)
  MaxPosts   (* posts in a behaviour (bounds the model)                     *)

ASSUME BlackboardAssumption ==
  /\ BadPrefix \notin Prefix /\ Kept \cap Erased = {}
  /\ MaxTtl \in Nat /\ Page \in Nat \ {0} /\ MaxPosts \in Nat

Pattern == Kept \cup Erased
Contents == [Pattern -> 0 .. 2]

VARIABLES
  posts,   (* the posts in the order of their links                         *)
  shown    (* the answer to the latest read                                 *)

boardVars == <<posts, shown>>

Posts == [author : Author, prefix : Prefix, content : Contents,
          tags : SUBSET Tag, ttl : 1 .. MaxTtl, age : 0 .. MaxTtl,
          parent : 0 .. MaxPosts]

BoardTypeOK ==
  /\ posts \in Seq(Posts)
  /\ shown \in Seq(Posts)

BoardInit == posts = <<>> /\ shown = <<>>

-----------------------------------------------------------------------------
(* strip_pii                                                               *)
Stripped(content, moved) ==
  [p \in Pattern |->
     IF p \in Kept \/ moved \/ content[p] = 0 THEN content[p] ELSE content[p] - 1]

(* Mutant of Clean: the check trusts what the coordinator replaced.        *)
CleanOfErased(content) == \A p \in Erased : content[p] = 0

(* No pattern, in any case.  Only the content is searched, not the tags.   *)
Clean(content) == \A p \in Pattern : content[p] = 0

(* validate_post, which sees created entries only (an updated one is       *)
(* valid; the coordinator's post only creates).  It bounds the number and  *)
(* the length of the tags and looks for no pattern in them, though the     *)
(* reads return them.                                                      *)
ValidPost(post) ==
  /\ post.prefix \in Prefix
  /\ post.ttl \in 1 .. MaxTtl
  /\ Clean(post.content)

(* post: the entry and its links are committed together, or, when the text *)
(* traps strip_pii or the integrity zome refuses the entry, not at all.    *)
Post(author, prefix, content, moved, tags, ttl, parent) ==
  LET post == [author |-> author, prefix |-> prefix,
               content |-> Stripped(content, moved), tags |-> tags,
               ttl |-> ttl, age |-> 0, parent |-> parent]
  IN  /\ Len(posts) < MaxPosts
      /\ ValidPost(post)
      /\ posts' = Append(posts, post)
      /\ UNCHANGED shown

-----------------------------------------------------------------------------
(* now_ms - created_ms < ttl_ms                                            *)
Live(post) == post.age < post.ttl

First(s, n) == SubSeq(s, 1, IF Len(s) < n THEN Len(s) ELSE n)

(* The members of S among the elements of s, in their order.               *)
Where(s, S) ==
  LET upto[i \in 0 .. Len(s)] ==
        IF i = 0 THEN <<>>
        ELSE IF s[i] \in S THEN Append(upto[i - 1], s[i]) ELSE upto[i - 1]
  IN  upto[Len(s)]

Posted == Range(posts)
LivePosts == {p \in Posted : Live(p)}

(* links.iter().rev().take(n): the newest n of the posts with the link.    *)
Newest(linked, n) == First(Reverse(Where(posts, linked)), n)

(* get_recent_posts looks at three pages of links and stops at a page of   *)
(* live posts.                                                             *)
GetRecentPosts == First(Where(Newest(Posted, 3 * Page), LivePosts), Page)

(* search_by_tag and my_posts look at one page of links, live or not.      *)
SearchByTag(tag) == Where(Newest({p \in Posted : tag \in p.tags}, Page), LivePosts)
MyPosts(agent) == Where(Newest({p \in Posted : p.author = agent}, Page), LivePosts)

(* get_replies looks at all of them.                                       *)
GetReplies(parent) == Where(posts, {p \in LivePosts : p.parent = parent})

(* search: a filter on get_recent_posts, and a limit.                      *)
Search(prefix, limit) ==
  First(Where(GetRecentPosts, {p \in Posted : p.prefix = prefix}), limit)

Read(answer) == shown' = answer /\ UNCHANGED posts

(* An hour passes: what a reader was shown is no longer looked at.         *)
PassTime ==
  /\ posts' = [i \in DOMAIN posts |->
                 [posts[i] EXCEPT !.age = IF @ < MaxTtl THEN @ + 1 ELSE @]]
  /\ shown' = <<>>

BoardNext ==
  \/ \E author \in Author, prefix \in Prefix \cup {BadPrefix},
        content \in Contents, moved \in BOOLEAN, tags \in SUBSET Tag,
        ttl \in 0 .. MaxTtl + 1, parent \in 0 .. Len(posts) :
       Post(author, prefix, content, moved, tags, ttl, parent)
  \/ Read(GetRecentPosts)
  \/ \E tag \in Tag : Read(SearchByTag(tag))
  \/ \E agent \in Author : Read(MyPosts(agent))
  \/ \E parent \in DOMAIN posts : Read(GetReplies(parent))
  \/ \E prefix \in Prefix, limit \in 0 .. Page : Read(Search(prefix, limit))
  \/ PassTime

BoardSpec == BoardInit /\ [][BoardNext]_boardVars

-----------------------------------------------------------------------------
(* Whatever a client posts and however a reader asks, a post that is shown *)
(* holds no sensitive pattern, though the coordinator's redaction leaves   *)
(* most of them, and its time to live is not over.                         *)
ShownPostsCleanAndLive ==
  \A i \in DOMAIN shown :
    (\A p \in Pattern : shown[i].content[p] = 0) /\ shown[i].age < shown[i].ttl
=============================================================================
