------------------------------ MODULE KdsCache ------------------------------
(***************************************************************************)
(* cachingGetter: the directory in which concurrent verifications share    *)
(* AMD's endorsement certificates (snp/kdscache.go).                       *)
(*                                                                         *)
(* AMD's key distribution service (KDS) and the file system are external.  *)
(* The service may fail to answer, or something on the way may answer in   *)
(* its place; revoked is what its revocation lists name now.  A temporary  *)
(* file has a name of its own, so that only its creator sees it: it is     *)
(* tmp of the call.  Certificates are smaller than a file system block: a  *)
(* power loss leaves a renamed file whole or empty.                        *)
(***************************************************************************)
EXTENDS Naturals, FiniteSets

CONSTANTS
    Procs,      \* the callers, which may be of different processes
    URLs,       \* what they may ask for: [path, line, chip, tcb]
    Chips,      \* the processors whose keys AMD may revoke
    Faults,     \* which of "fetch", "proxy", "disk", "crash", "power" happen
    None

(* A certificate, a revocation list or a file is what it answers to, the   *)
(* revocations it names and how much of it is there.                       *)
Body == [url : URLs \cup {None}, revoked : SUBSET Chips,
         size : {"empty", "part", "whole"}]

(* None is neither a URL nor a body. *)
ASSUME NoneIsNothing == None \notin URLs /\ None \notin Body

Blank == [url |-> None, revoked |-> {}, size |-> "empty"]

(* Mutant: whatever the service answers is kept. *)
cacheable_All(url) == TRUE

(* Only endorsement certificates never change. *)
cacheable(url) == url.path \in {"vcek", "vlek"}

(* The file a URL is kept in: SHA-256 of all of it. *)
path(url) == url

Files == {path(u) : u \in {v \in URLs : cacheable(v)}}

VARIABLES
    revoked,    \* the chips AMD has revoked
    proxied,    \* history: something answered in the service's place
    dir,        \* the published files by name, None where there is none
    get         \* each caller's GetContext

cacheVars == <<revoked, proxied, dir, get>>

GetState ==
    [pc : {"off", "read", "fetch", "create", "write", "writing", "rename", "return"},
     url : URLs \cup {None}, caching : BOOLEAN, body : Body \cup {None},
     tmp : Body \cup {None},
     since : SUBSET Chips,      \* history: revoked when the call was made
     failed : BOOLEAN]          \* history: the service did not answer it

Idle == [pc |-> "off", url |-> None, caching |-> FALSE, body |-> None,
         tmp |-> None, since |-> {}, failed |-> FALSE]

CacheTypeOK ==
    /\ revoked \subseteq Chips
    /\ proxied \in BOOLEAN
    /\ dir \in [Files -> Body \cup {None}]
    /\ get \in [Procs -> GetState]

CacheInit ==
    /\ revoked = {}
    /\ proxied = FALSE
    /\ dir = [f \in Files |-> None]
    /\ get = [p \in Procs |-> Idle]

-----------------------------------------------------------------------------
(* GetContext is called.  caching is whether the getter is the cache, or   *)
(* the one it wraps (NewCachingKDSGetter returns next where it cannot      *)
(* use the directory).                                                     *)
GetContext(p, url, caching) ==
    /\ get[p].pc = "off"
    /\ get' = [get EXCEPT ![p] =
                 [Idle EXCEPT !.pc = IF caching /\ cacheable(url) THEN "read" ELSE "fetch",
                              !.url = url, !.caching = caching, !.since = revoked]]

(* A file that is there and not empty is the answer. *)
ReadFile(p) ==
    /\ get[p].pc = "read"
    /\ LET file == dir[path(get[p].url)]
       IN  get' = IF file # None /\ file # Blank
                  THEN [get EXCEPT ![p].pc = "return", ![p].body = file]
                  ELSE [get EXCEPT ![p].pc = "fetch"]
    /\ UNCHANGED <<revoked, proxied, dir>>

Published(p) == get[p].caching /\ cacheable(get[p].url)

Answered(p, body) ==
    get' = [get EXCEPT ![p].pc = IF Published(p) THEN "create" ELSE "return",
                       ![p].body = body]

(* The service answers what it has for the URL. *)
Fetch(p) ==
    /\ get[p].pc = "fetch"
    /\ Answered(p, [url |-> get[p].url, size |-> "whole",
                    revoked |-> IF cacheable(get[p].url) THEN {} ELSE revoked])
    /\ UNCHANGED <<revoked, proxied, dir>>

(* Something else answers, with a body that is no certificate. *)
FetchProxied(p) ==
    /\ get[p].pc = "fetch"
    /\ "proxy" \in Faults
    /\ Answered(p, [url |-> None, size |-> "whole", revoked |-> {}])
    /\ proxied' = TRUE
    /\ UNCHANGED <<revoked, dir>>

(* No answer within the context, or not 200. *)
FetchFails(p) ==
    /\ get[p].pc = "fetch"
    /\ "fetch" \in Faults
    /\ get' = [get EXCEPT ![p].pc = "return", ![p].failed = TRUE]
    /\ UNCHANGED <<revoked, proxied, dir>>

-----------------------------------------------------------------------------
(* Publication, best effort. *)
CreateTemp(p) ==
    /\ get[p].pc = "create"
    /\ get' = [get EXCEPT ![p].pc = "write", ![p].tmp = Blank]
    /\ UNCHANGED <<revoked, proxied, dir>>

(* Mutant: the certificate is written under its final name. *)
WriteStarts_InPlace(p) ==
    /\ get[p].pc = "write"
    /\ get' = [get EXCEPT ![p].pc = "writing",
                          ![p].tmp = [get[p].body EXCEPT !.size = "part"]]
    /\ dir' = [dir EXCEPT ![path(get[p].url)] = [get[p].body EXCEPT !.size = "part"]]
    /\ UNCHANGED <<revoked, proxied>>

(* Write has put a first part into the file. *)
WriteStarts(p) ==
    /\ get[p].pc = "write"
    /\ get' = [get EXCEPT ![p].pc = "writing",
                          ![p].tmp = [get[p].body EXCEPT !.size = "part"]]
    /\ UNCHANGED <<revoked, proxied, dir>>

(* Write and Close return. *)
WriteEnds(p) ==
    /\ get[p].pc = "writing"
    /\ get' = [get EXCEPT ![p].pc = "rename", ![p].tmp = get[p].body]
    /\ UNCHANGED <<revoked, proxied, dir>>

(* Rename, and the deferred Remove finds nothing. *)
Rename(p) ==
    /\ get[p].pc = "rename"
    /\ dir' = [dir EXCEPT ![path(get[p].url)] = get[p].tmp]
    /\ get' = [get EXCEPT ![p].pc = "return", ![p].tmp = None]
    /\ UNCHANGED <<revoked, proxied>>

(* Mutant: a certificate that cannot be kept is not returned. *)
PublishFails_NoAnswer(p) ==
    /\ get[p].pc \in {"create", "write", "writing", "rename"}
    /\ "disk" \in Faults
    /\ get' = [get EXCEPT ![p].pc = "return", ![p].tmp = None, ![p].body = None]
    /\ UNCHANGED <<revoked, proxied, dir>>

(* CreateTemp, Write, Close or Rename fails: the file is removed, and the  *)
(* certificate returned all the same.                                      *)
PublishFails(p) ==
    /\ get[p].pc \in {"create", "write", "writing", "rename"}
    /\ "disk" \in Faults
    /\ get' = [get EXCEPT ![p].pc = "return", ![p].tmp = None]
    /\ UNCHANGED <<revoked, proxied, dir>>

(* GetContext returns; what it returned is in get[p].body until then. *)
Return(p) ==
    /\ get[p].pc = "return"
    /\ get' = [get EXCEPT ![p] = Idle]

-----------------------------------------------------------------------------
(* The caller's process dies, and its temporary file is never renamed. *)
Crash(p) ==
    /\ "crash" \in Faults
    /\ get[p].pc # "off"
    /\ get' = [get EXCEPT ![p] = Idle]
    /\ UNCHANGED <<revoked, proxied, dir>>

(* The machine stops: files whose content was not written back are empty,  *)
(* since nothing syncs them before the rename.                             *)
PowerLoss ==
    /\ "power" \in Faults
    /\ \E lost \in SUBSET {f \in Files : dir[f] # None} :
          dir' = [f \in Files |-> IF f \in lost THEN Blank ELSE dir[f]]
    /\ get' = [p \in Procs |-> Idle]
    /\ UNCHANGED <<revoked, proxied>>

Revoke(chip) ==
    /\ chip \notin revoked
    /\ revoked' = revoked \cup {chip}
    /\ UNCHANGED <<proxied, dir, get>>

GetStep(p) ==
    \/ ReadFile(p)
    \/ Fetch(p)
    \/ FetchProxied(p)
    \/ FetchFails(p)
    \/ CreateTemp(p)
    \/ WriteStarts(p)
    \/ WriteEnds(p)
    \/ Rename(p)
    \/ PublishFails(p)

(* The cache in any use. *)
CacheNext ==
    \/ \E p \in Procs :
          \/ GetStep(p)
          \/ Crash(p)
          \/ Return(p) /\ UNCHANGED <<revoked, proxied, dir>>
          \/ \E url \in URLs, caching \in BOOLEAN :
                GetContext(p, url, caching) /\ UNCHANGED <<revoked, proxied, dir>>
    \/ PowerLoss
    \/ \E chip \in Chips : Revoke(chip)

CacheSpec == CacheInit /\ [][CacheNext]_cacheVars

-----------------------------------------------------------------------------
(* What a caller is handed for a URL is all of one answer to that very     *)
(* URL, however calls, failures and deaths of other callers fall between   *)
(* the steps of its publication ("so a concurrent reader never sees a      *)
(* partial file", GetContext); a revocation list moreover names every chip *)
(* that was revoked when the caller asked ("pass through to next on every  *)
(* request", NewCachingKDSGetter).                                         *)
HandedIsAnswer ==
    \A p \in Procs : (get[p].pc = "return" /\ get[p].body # None) =>
        LET body == get[p].body
        IN  /\ body.size = "whole"
            /\ body.url = get[p].url \/ (proxied /\ body.url = None)
            /\ (body.url # None /\ ~cacheable(get[p].url))
                  => get[p].since \subseteq body.revoked

=============================================================================
