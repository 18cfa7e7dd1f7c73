-------------------------------- MODULE Urls --------------------------------
(***************************************************************************)
(* URLs that are shortened and cached (collections/urls, drivers/          *)
(* urldriver). Every line is scanned for URLs, which are stored and, when  *)
(* long, shortened; the commands shorten and cache give a URL a code or    *)
(* fetch it to a file named by one. The scan of a line and its command run *)
(* beside each other. A code is looked for among those in use (Encode) and *)
(* taken by a later Put; a cached URL is asked for and copied in between.  *)
(***************************************************************************)
EXTENDS Handlers

CONSTANTS
    Url,
    Long,       \* the URLs of more than autoShortenLimit characters
    Code,
    Hash,       \* the code Encode tries first for a URL
    MaxTries,   \* how often Encode tries (10 in the code)
    Known,      \* bound: a URL stored before the bot started, or None
    Lines,      \* bound: the lines that may be said
    MaxLines    \* bound: how many

Handler == Conn \X {"scan", "command"}

VARIABLES
    urls,       \* the collection
    urlIds,     \* the ids allocated
    lastseen,   \* the id of the URL last stored in each channel
    file,       \* the URL whose content each file of the cache has
    urlSeen,    \* uc.seen for the empty regex: the ids picked, or None
    work,       \* the handlers
    said,       \* bound: the lines said so far
    announced,  \* history: the codes that were announced, with their URL
    risky       \* history: codes two handlers tried at a time, or that were put over

urlsVars == <<urls, urlIds, lastseen, file, urlSeen, work, said, announced, risky>>

UrlRec == [id : Id, url : Url, cachedas : Code \cup {None}, shortened : Code \cup {None}]
ASSUME UrlsAssumption ==
    /\ Long \subseteq Url /\ Hash \in [Url -> Code] /\ MaxTries \in Nat \ {0} /\ MaxLines \in Nat
    /\ Known \in Url \cup {None} /\ (Known # None => 1 <= MaxId)
    /\ \A l \in Lines : /\ l.ch \in Channel /\ l.is \in {"say", "find", "shorten", "cache"}
                        /\ l.that \in BOOLEAN /\ l.words \in Seq(Url)
                        /\ l.is \in {"shorten", "cache"} /\ ~l.that => l.words # <<>>
    /\ None \notin Url \cup Code \cup UrlRec

UrlKeys == ({"url"} \X Url) \cup ({"cachedas", "shortened"} \X Code)
UrlIndexes(u) ==
    <<<<"url", u.url>>>>
    \o (IF u.cachedas # None THEN <<<<"cachedas", u.cachedas>>>> ELSE <<>>)
    \o (IF u.shortened # None THEN <<<<"shortened", u.shortened>>>> ELSE <<>>)

Ur == INSTANCE IndexedStore WITH
    ObjectId <- Id, Nil <- None,
    Key <- UrlKeys, Bucket <- {}, Value <- UrlRec, Client <- Conn,
    IdOf <- [u \in UrlRec |-> u.id], Indexes <- [u \in UrlRec |-> UrlIndexes(u)],
    Path <- [k \in UrlKeys |-> {}], Rejected <- {},
    ValidateValues <- KeepAll,
    store <- urls, batch <- None, scan <- None, copy <- [c \in Conn |-> None],
    made <- {}, stale <- {}

GetByUrl(u) == Ur!Lookup(urls, <<"url", u>>)
GetById(i) == IF i = None THEN None ELSE urls.vals[i]
GetCached(c) == Ur!Lookup(urls, <<"cachedas", c>>)
GetShortened(c) == Ur!Lookup(urls, <<"shortened", c>>)

NewUrl(i, w) == [id |-> i, url |-> w, cachedas |-> None, shortened |-> None]

Idle == [pc |-> "idle", is |-> None, ch |-> None, left |-> <<>>, that |-> FALSE,
         u |-> None, was |-> None, code |-> None, tries |-> 0]

UrlsInit ==
    /\ urls = IF Known = None THEN Ur!EmptyStore ELSE Ur!PutTx(Ur!EmptyStore, NewUrl(1, Known))
    /\ urlIds = Cardinality(Ur!Stored(urls))
    /\ lastseen = [ch \in Channel |-> None]
    /\ file = [c \in Code |-> None]
    /\ urlSeen = None
    /\ work = [h \in Handler |-> Idle]
    /\ said = 0
    /\ announced = {} /\ risky = {}

SayUrls(c) ==
    \E l \in Lines :
        LET start == [Idle EXCEPT !.pc = "get", !.ch = l.ch, !.left = l.words] IN
        /\ \A x \in {"scan", "command"} : work[<<c, x>>] = Idle
        /\ said < MaxLines /\ said' = said + 1
        /\ work' = [work EXCEPT
              ![<<c, "scan">>] = IF l.words = <<>> THEN Idle ELSE [start EXCEPT !.is = "scan"],
              ![<<c, "command">>] = IF l.is = "say" THEN Idle
                                ELSE [start EXCEPT !.is = l.is, !.that = l.that]]
        /\ UNCHANGED <<urls, urlIds, lastseen, file, urlSeen, announced, risky>>

\* "randurl": GetRand picks none twice until all were picked.
Find(h) ==
    LET before == IF urlSeen = None THEN {} ELSE urlSeen
        left == {u \in Ur!Stored(urls) : u.id \notin before} IN
    /\ work[h].pc = "get" /\ work[h].is = "find"
    /\ work' = [work EXCEPT ![h] = Idle]
    /\ \/ Cardinality(left) < 2 /\ urlSeen' = None
       \/ Cardinality(left) > 1 /\ \E u \in left : urlSeen' = before \cup {u.id}
    /\ UNCHANGED <<urls, urlIds, lastseen, file, said, announced, risky>>

\* A scan's next word, or Idle.
NextWord(h) == IF Len(work[h].left) > 1 /\ work[h].is = "scan"
               THEN [Idle EXCEPT !.pc = "get", !.is = "scan", !.ch = work[h].ch,
                                 !.left = Tail(work[h].left)]
               ELSE Idle

\* The record a handler works on: of the last URL ("that") or of the word, else a new one.
\* A word already stored is done with, and so is a URL that has its code.
GetUrl(h) ==
    LET w   == work[h]
        old == IF w.that THEN GetById(lastseen[w.ch]) ELSE GetByUrl(w.left[1])
        u   == IF old = None THEN NewUrl(urlIds + 1, w.left[1]) ELSE old
        done == \/ w.that /\ old = None
                \/ old # None /\ (CASE w.is = "scan" -> TRUE
                                    [] w.is = "shorten" -> old.shortened # None
                                    [] w.is = "cache" -> old.cachedas # None)
    IN
    /\ w.pc = "get" /\ w.is # "find"
    /\ ~done /\ old = None => urlIds < MaxId  \* the bound
    /\ work' = [work EXCEPT ![h] =
            IF done THEN NextWord(h)
            ELSE [w EXCEPT !.u = u, !.was = old,
                  !.pc = IF w.is = "scan" /\ u.url \notin Long THEN "put" ELSE "try"]]
    /\ urlIds' = IF ~done /\ old = None THEN urlIds + 1 ELSE urlIds
    /\ UNCHANGED <<urls, lastseen, file, urlSeen, said, announced, risky>>

\* After the last try the code is empty: only cache takes that for an error.
Collided(w) == IF w.tries < MaxTries THEN [w EXCEPT !.pc = "try"]
               ELSE IF w.is = "cache" THEN Idle ELSE [w EXCEPT !.pc = "put", !.code = None]

\* Encode: the hash of the URL or, after a collision, a code next to the one before. It is
\* looked for among the cached URLs, and then ...
TryCode(h) ==
    LET w == work[h] IN
    /\ w.pc = "try"
    /\ \E c \in IF w.tries = 0 THEN {Hash[w.u.url]} ELSE Code \ {w.code} :
        LET tried == [w EXCEPT !.pc = "free?", !.code = c, !.tries = @ + 1] IN
        /\ work' = [work EXCEPT ![h] = IF GetCached(c) # None THEN Collided(tried) ELSE tried]
        /\ risky' = IF \E g \in Handler \ {h} : work[g].code = c THEN risky \cup {c} ELSE risky
    /\ UNCHANGED <<urls, urlIds, lastseen, file, urlSeen, said, announced>>

\* A mutant: ... only among those.
IsFreeCached(h) ==
    /\ work[h].pc = "free?"
    /\ work' = [work EXCEPT ![h].pc = IF work[h].is = "cache" THEN "ask" ELSE "put"]
    /\ UNCHANGED <<urls, urlIds, lastseen, file, urlSeen, said, announced, risky>>
\* ... among the shortened ones.
IsFree(h) ==
    LET w == work[h] IN
    /\ w.pc = "free?"
    /\ work' = [work EXCEPT ![h] =
            IF GetShortened(w.code) # None THEN Collided(w)
            ELSE [w EXCEPT !.pc = IF w.is = "cache" THEN "ask" ELSE "put"]]
    /\ UNCHANGED <<urls, urlIds, lastseen, file, urlSeen, said, announced, risky>>

\* Cache asks for the URL, which may be bad, missing or too large, ...
Ask(h) ==
    /\ work[h].pc = "ask"
    /\ work' \in {[work EXCEPT ![h].pc = "copy"], [work EXCEPT ![h] = Idle]}
    /\ file' = IF work'[h] = Idle THEN file ELSE [file EXCEPT ![work[h].code] = None]
    /\ UNCHANGED <<urls, urlIds, lastseen, urlSeen, said, announced, risky>>

\* ... and copies it to the file it has opened and emptied, or to some part of it.
Copy(h) ==
    LET w == work[h] IN
    /\ w.pc = "copy"
    /\ \/ /\ file' = [file EXCEPT ![w.code] = w.u.url]
          /\ work' = [work EXCEPT ![h].pc = "put"]
       \/ /\ work' = [work EXCEPT ![h] = Idle]
          /\ UNCHANGED file
    /\ UNCHANGED <<urls, urlIds, lastseen, urlSeen, said, announced, risky>>

\* The scan, Shorten or Cache puts the record and tells its code.
PutUrl(h) ==
    LET w   == work[h]
        u   == IF w.is = "cache" THEN [w.u EXCEPT !.cachedas = w.code]
               ELSE [w.u EXCEPT !.shortened = w.code]
        now == urls.vals[u.id] IN
    /\ w.pc = "put"
    /\ urls' = Ur!PutTx(urls, u)
    /\ announced' = IF w.is = "scan" /\ w.code = None THEN announced
                    ELSE announced \cup {<<IF w.is = "cache" THEN "c" ELSE "s", w.code, u.url>>}
    /\ risky' = IF now = w.was THEN risky ELSE risky \cup ({now.cachedas, now.shortened} \ {None})
    /\ lastseen' = IF w.is = "scan" THEN [lastseen EXCEPT ![w.ch] = u.id] ELSE lastseen
    /\ work' = [work EXCEPT ![h] = NextWord(h)]
    /\ UNCHANGED <<urlIds, file, urlSeen, said>>

UrlsNext ==
    \/ \E c \in Conn : SayUrls(c)
    \/ \E h \in Handler :
        \/ Find(h) \/ GetUrl(h) \/ TryCode(h) \/ IsFree(h)
        \/ Ask(h) \/ Copy(h) \/ PutUrl(h)
UrlsSpec == UrlsInit /\ [][UrlsNext]_urlsVars

-----------------------------------------------------------------------------
\* A shortened URL that was announced leads where it should (http.go:11-13), and the file of
\* one announced as cached has its content: unless another handler tried the code at the same
\* time (urldriver.go:100-104), or put the record from an older copy, or Encode gave up, when
\* "shorten" announces an empty code (urldriver.go:112).
CodesLead ==
    \A a \in announced :
        a[2] \notin risky \cup {None} =>
            IF a[1] = "s" THEN GetShortened(a[2]) # None /\ GetShortened(a[2]).url = a[3]
            ELSE /\ GetCached(a[2]) # None /\ GetCached(a[2]).url = a[3]
                 /\ file[a[2]] = a[3]
=============================================================================
