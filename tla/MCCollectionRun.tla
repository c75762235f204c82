-------------------------- MODULE MCCollectionRun --------------------------
(* Feeds and model values for model checking CollectionRun. *)
EXTENDS CollectionRun, TLC

CONSTANTS r1, r2, a, b, i1, i2, i3, i4, u1, u2, t1, t2, t3, local, remote

Runners == {r1, r2}
NoSources == {}
OneSource == {a}
OtherSource == {b}
TwoSources == {a, b}

Entry(id, title, url, external) ==
    [id |-> id, title |-> title, url |-> url, external |-> external]

Story1 == Entry(i1, t1, u1, Missing)
Story2 == Entry(i2, t2, u2, Missing)
Story3 == Entry(i3, t3, Missing, Missing)
TooLong == Entry(i4, t3, u2, Missing)

(* Two sources that carry the same two stories in opposite order; one later *)
(* drops one for another.                                                  *)
Mirrored == (a :> (1 :> <<Story1, Story2>> @@ 2 :> <<Story3, Story1>>))
         @@ (b :> (1 :> <<Story2, Story1>>))

(* One source that drops one entry and adds another. *)
Rolling == a :> (1 :> <<Story1, Story2>> @@ 2 :> <<Story3, Story1>>)

(* A JSON feed whose first item has no name of its own, at first with a    *)
(* link all the same, and whose story is edited under its id and loses     *)
(* both title and link; later it has an entry the database rejects.        *)
(* Another feed has such a bare entry, of another id, and republishes the  *)
(* nameless item, in opposite order.                                       *)
Linked == Entry(Missing, t1, Missing, u2)
Unnamed == Entry(Missing, t2, Missing, Missing)
Bare1 == Entry(i1, Missing, Missing, Missing)
Bare4 == Entry(i4, Missing, Missing, Missing)
Plain2 == Entry(i2, t2, Missing, Missing)

Crossed == (a :> (1 :> <<Linked, Story1>> @@ 2 :> <<Unnamed, Bare1>>
                  @@ 3 :> <<TooLong>>))
        @@ (b :> (1 :> <<Bare4, Plain2>>))

RejectedEntries == {TooLong}

AllFeeds == [s \in Source |-> "feed"]
JsonAndFeed == a :> "json" @@ b :> "feed"

UpTo3 == [s \in Source |-> 3]
UpTo4 == [s \in Source |-> 4]
UpTo3And1 == a :> 3 @@ b :> 1

-----------------------------------------------------------------------------
(* What one request of safe_fetch may meet. *)

LocalNames == {local}

Address(version, range, embedded) ==
    [version |-> version, range |-> range, listed |-> FALSE, embedded |-> embedded]

Public4 == Address(4, "public", "none")
Public6 == Address(6, "public", "none")
Private4 == Address(4, "private", "none")
Mapped6 == Address(6, "private", "private")
Metadata4 == [Public4 EXCEPT !.listed = TRUE]

Lookups == {{}, {Public4}, {Public4, Public6}, {Public4, Private4}, {Mapped6}, {Metadata4}}

Url(scheme, host) == [scheme |-> scheme, host |-> host, path |-> "p"]

Answer(status, location, size) ==
    [status |-> status, location |-> location, size |-> size]

Answers == {Answer(0, NoLocation, 0), Answer(200, NoLocation, MaxBody),
            Answer(200, NoLocation, MaxBody + 1), Answer(304, NoLocation, 0)}
           \cup {Answer(302, u, 0) :
                    u \in {Url("https", SameHost), Url("https", remote),
                            Url("https", local), Url("file", remote)}}

Hops == [dns : Lookups, answer : Answers]

StartUrls == {Url("https", a), Url("file", a), Url("https", local)}
=============================================================================
