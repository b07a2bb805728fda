---------------------------- MODULE ArmTlsProofs ----------------------------
(***************************************************************************)
(* The certificate cache, and what an accepted peer of an attested TLS     *)
(* connection is, for any number of processes that share the cache and any *)
(* certificates, expectations, failures and revocations.                   *)
(*                                                                         *)
(* The first part is the cache alone: what a call is handed is whole and   *)
(* answers its URL.  HandedIsAnswer speaks of a call that returns, but     *)
(* what it returns may have come from a file another call published, which *)
(* came from that call's temporary file.  The invariant follows the        *)
(* certificate all the way: FilesAnswer is about the directory,            *)
(* CallsAnswer about the body and the temporary file of a call that has    *)
(* yet to publish.                                                         *)
(*                                                                         *)
(* Every step of a verification is a step of the cache or leaves it alone  *)
(* (ImplementsCache), so what the first part shows of the cache holds in   *)
(* the second; CallSound says what each verification has made sure of so   *)
(* far.                                                                    *)
(*                                                                         *)
(* For the other direction, that an honest peer is accepted, Dues says     *)
(* what each verification of one still has ahead of it and why nothing in  *)
(* it fails; RoundTrip says that what a certificate is made of is what is  *)
(* read from it.                                                           *)
(***************************************************************************)
EXTENDS ArmTls, TLAPS

(* All of an answer to url, or what something else answered in its place;  *)
(* it names no chip that is not revoked.                                   *)
Answers(body, url) ==
    /\ body.size = "whole" /\ body.revoked \subseteq revoked
    /\ body.url = url \/ (proxied /\ body.url = None)

(* A published file is empty, or an answer to the URL it is named after. *)
FilesAnswer == \A f \in Files : dir[f] = None \/ dir[f] = Blank \/ Answers(dir[f], f)

Publishing == {"create", "write", "writing", "rename"}

(* A call of p between its steps. *)
CallAnswers(p) ==
    /\ get[p].since \subseteq revoked
    /\ get[p].pc # "off" => get[p].url \in URLs
    /\ get[p].pc \in {"read", "fetch"} => get[p].body = None
    /\ get[p].pc \in Publishing \cup {"read"} => cacheable(get[p].url)
    /\ get[p].pc \in Publishing => get[p].body \in Body /\ Answers(get[p].body, get[p].url)
    /\ get[p].pc = "rename" => get[p].tmp = get[p].body
    /\ (get[p].pc = "return" /\ get[p].body = None) => get[p].failed
    /\ (get[p].pc = "return" /\ get[p].body # None) =>
          /\ Answers(get[p].body, get[p].url)
          /\ (get[p].body.url # None /\ ~cacheable(get[p].url))
                => get[p].since \subseteq get[p].body.revoked

CallsAnswer == \A p \in Procs : CallAnswers(p)

IInv == CacheTypeOK /\ FilesAnswer /\ CallsAnswer

-----------------------------------------------------------------------------
(* The name a certificate is kept under is one of the directory's. *)
LEMMA NamesAreFiles ==
    ASSUME NEW url \in URLs, cacheable(url)
    PROVE  path(url) \in Files /\ path(url) = url
  BY DEF Files, path

(* An empty file is a file. *)
LEMMA BlankIsBody == Blank \in Body
  BY DEF Blank, Body

(* The cache starts empty and nobody has called it. *)
LEMMA InitHolds == CacheInit => IInv
<1> SUFFICES ASSUME CacheInit PROVE IInv
  OBVIOUS
<1>1. Idle \in GetState
  BY DEF Idle, GetState
<1>2. CacheTypeOK
  BY <1>1 DEF CacheInit, CacheTypeOK
<1>3. FilesAnswer
  BY DEF CacheInit, FilesAnswer
<1>4. CallsAnswer
  BY DEF CacheInit, CallsAnswer, CallAnswers, Idle, Publishing
<1> QED
  BY <1>2, <1>3, <1>4 DEF IInv

(* A step that only one call takes, and that does not publish, need only   *)
(* keep that call sound.                                                   *)
LEMMA OneCallMoves ==
    ASSUME IInv, NEW p \in Procs, NEW s \in GetState,
           get' = [get EXCEPT ![p] = s], UNCHANGED <<revoked, dir>>,
           proxied' \in BOOLEAN, proxied => proxied', CallAnswers(p)'
    PROVE  IInv'
<1>1. CacheTypeOK'
  BY DEF IInv, CacheTypeOK
<1>2. FilesAnswer'
  BY DEF IInv, FilesAnswer, Answers
<1>3. CallsAnswer'
  <2> SUFFICES ASSUME NEW q \in Procs PROVE CallAnswers(q)'
    BY DEF CallsAnswer
  <2>1. CASE q = p
    BY <2>1
  <2>2. CASE q # p
    <3>1. CallAnswers(q) /\ get'[q] = get[q]
      BY <2>2 DEF IInv, CallsAnswer, CacheTypeOK
    <3> QED
      BY <3>1 DEF CallAnswers, Answers
  <2> QED
    BY <2>1, <2>2
<1> QED
  BY <1>1, <1>2, <1>3 DEF IInv

(* Every step of a call keeps the invariant. *)
LEMMA GetStepKeeps ==
    ASSUME IInv, NEW p \in Procs, GetStep(p)
    PROVE  IInv'
<1> DEFINE c == get[p]
<1>0. /\ c \in GetState /\ CallAnswers(p)
      /\ proxied \in BOOLEAN /\ revoked \subseteq Chips
      /\ get \in [Procs -> GetState] /\ dir \in [Files -> Body \cup {None}]
  BY DEF IInv, CallsAnswer, CacheTypeOK
<1>1. CASE ReadFile(p)
  <2> DEFINE file == dir[path(c.url)]
  <2>1. /\ c.pc = "read" /\ c.url \in URLs /\ cacheable(c.url)
        /\ path(c.url) \in Files /\ path(c.url) = c.url
    BY <1>0, <1>1, NamesAreFiles DEF ReadFile, CallAnswers, Publishing
  <2>2. CASE file # None /\ file # Blank
    <3> DEFINE s == [c EXCEPT !.pc = "return", !.body = file]
    <3>1. file \in Body /\ Answers(file, c.url)
      BY <2>1, <2>2, <1>0 DEF IInv, FilesAnswer
    <3>2. s \in GetState /\ get' = [get EXCEPT ![p] = s] /\ UNCHANGED <<revoked, proxied, dir>>
      BY <1>0, <1>1, <2>2, <3>1 DEF ReadFile, GetState
    <3>3. CallAnswers(p)'
      BY <1>0, <2>1, <2>2, <3>1, <3>2 DEF CallAnswers, Answers, Publishing, GetState
    <3> HIDE DEF s
    <3> QED
      BY <3>2, <3>3, <1>0, OneCallMoves
  <2>3. CASE ~(file # None /\ file # Blank)
    <3> DEFINE s == [c EXCEPT !.pc = "fetch"]
    <3>1. s \in GetState /\ get' = [get EXCEPT ![p] = s] /\ UNCHANGED <<revoked, proxied, dir>>
      BY <1>0, <1>1, <2>3 DEF ReadFile, GetState
    <3>2. CallAnswers(p)'
      BY <1>0, <2>1, <3>1 DEF CallAnswers, Publishing, GetState
    <3> HIDE DEF s
    <3> QED
      BY <3>1, <3>2, <1>0, OneCallMoves
  <2> QED
    BY <2>2, <2>3
<1>2. ASSUME NEW b \in Body, c.pc = "fetch", Answered(p, b),
             UNCHANGED <<revoked, dir>>, proxied' \in BOOLEAN, proxied => proxied',
             b.size = "whole", b.revoked \subseteq revoked, b.url = c.url \/ (proxied' /\ b.url = None),
             (b.url # None /\ ~cacheable(c.url)) => revoked \subseteq b.revoked
      PROVE  IInv'
  <2> DEFINE s == [c EXCEPT !.pc = IF Published(p) THEN "create" ELSE "return", !.body = b]
  <2>1. c.url \in URLs /\ c.since \subseteq revoked
    BY <1>0, <1>2 DEF CallAnswers
  <2>2. s \in GetState /\ get' = [get EXCEPT ![p] = s]
    BY <1>0, <1>2 DEF Answered, GetState
  <2>3. s.pc = "create" => cacheable(c.url)
    BY <1>0 DEF Published, GetState
  <2>4. CallAnswers(p)'
    BY <1>0, <1>2, <2>1, <2>2, <2>3, NoneIsNothing DEF CallAnswers, Answers, Publishing, GetState
  <2> HIDE DEF s
  <2> QED
    BY <1>2, <2>2, <2>4, OneCallMoves
<1>3. CASE Fetch(p)
  <2> DEFINE b == [url |-> c.url, size |-> "whole",
                   revoked |-> IF cacheable(c.url) THEN {} ELSE revoked]
  <2>1. b \in Body
    BY <1>0 DEF Body, GetState
  <2> QED
    BY <1>0, <1>2, <1>3, <2>1 DEF Fetch
<1>4. CASE FetchProxied(p)
  <2> DEFINE b == [url |-> None, size |-> "whole", revoked |-> {}]
  <2>1. b \in Body
    BY DEF Body
  <2>2. proxied' = TRUE /\ proxied' \in BOOLEAN
    BY <1>4, Zenon DEF FetchProxied
  <2> QED
    BY <1>0, <1>2, <1>4, <2>1, <2>2 DEF FetchProxied
<1>5. CASE FetchFails(p)
  <2> DEFINE s == [c EXCEPT !.pc = "return", !.failed = TRUE]
  <2>1. s \in GetState /\ get' = [get EXCEPT ![p] = s] /\ UNCHANGED <<revoked, proxied, dir>>
    BY <1>0, <1>5 DEF FetchFails, GetState
  <2>2. CallAnswers(p)'
    BY <1>0, <1>5, <2>1 DEF FetchFails, CallAnswers, Publishing, GetState
  <2> HIDE DEF s
  <2> QED
    BY <2>1, <2>2, <1>0, OneCallMoves

<1>6. CASE CreateTemp(p)
  <2> DEFINE s == [c EXCEPT !.pc = "write", !.tmp = Blank]
  <2>1. s \in GetState /\ get' = [get EXCEPT ![p] = s] /\ UNCHANGED <<revoked, proxied, dir>>
    BY <1>0, <1>6, BlankIsBody DEF CreateTemp, GetState
  <2>2. CallAnswers(p)'
    BY <1>0, <1>6, <2>1 DEF CreateTemp, CallAnswers, Answers, Publishing, GetState
  <2> HIDE DEF s
  <2> QED
    BY <2>1, <2>2, <1>0, OneCallMoves
<1>7. CASE WriteStarts(p)
  <2> DEFINE s == [c EXCEPT !.pc = "writing", !.tmp = [c.body EXCEPT !.size = "part"]]
  <2>1. c.pc = "write" /\ c.body \in Body
    BY <1>0, <1>7 DEF WriteStarts, CallAnswers, Publishing
  <2>2. [c.body EXCEPT !.size = "part"] \in Body
    BY <2>1 DEF Body
  <2>3. s \in GetState /\ get' = [get EXCEPT ![p] = s] /\ UNCHANGED <<revoked, proxied, dir>>
    BY <1>0, <1>7, <2>2 DEF WriteStarts, GetState
  <2>4. CallAnswers(p)'
    BY <1>0, <2>1, <2>3 DEF CallAnswers, Answers, Publishing, GetState
  <2> HIDE DEF s
  <2> QED
    BY <2>3, <2>4, <1>0, OneCallMoves
<1>8. CASE WriteEnds(p)
  <2> DEFINE s == [c EXCEPT !.pc = "rename", !.tmp = c.body]
  <2>1. s \in GetState /\ get' = [get EXCEPT ![p] = s] /\ UNCHANGED <<revoked, proxied, dir>>
    BY <1>0, <1>8 DEF WriteEnds, GetState
  <2>2. CallAnswers(p)'
    BY <1>0, <1>8, <2>1 DEF WriteEnds, CallAnswers, Answers, Publishing, GetState
  <2> HIDE DEF s
  <2> QED
    BY <2>1, <2>2, <1>0, OneCallMoves
<1>9. CASE Rename(p)
  <2> DEFINE s == [c EXCEPT !.pc = "return", !.tmp = None]
  <2>1. /\ c.pc = "rename" /\ c.url \in URLs /\ cacheable(c.url)
        /\ c.tmp = c.body /\ c.body \in Body /\ Answers(c.body, c.url)
        /\ path(c.url) \in Files /\ path(c.url) = c.url
    BY <1>0, <1>9, NamesAreFiles DEF Rename, CallAnswers, Publishing
  <2>2. /\ s \in GetState /\ get' = [get EXCEPT ![p] = s]
        /\ dir' = [dir EXCEPT ![c.url] = c.body] /\ UNCHANGED <<revoked, proxied>>
    BY <1>0, <1>9, <2>1 DEF Rename, GetState
  <2>3. CacheTypeOK'
    BY <1>0, <2>1, <2>2 DEF CacheTypeOK
  <2>4. FilesAnswer'
    BY <1>0, <2>1, <2>2 DEF IInv, FilesAnswer, Answers
  <2>5. CallAnswers(p)'
    BY <1>0, <2>1, <2>2, NoneIsNothing DEF CallAnswers, Answers, Publishing, GetState
  <2>6. ASSUME NEW q \in Procs, q # p PROVE CallAnswers(q)'
    <3>1. CallAnswers(q) /\ get'[q] = get[q]
      BY <1>0, <2>2, <2>6 DEF IInv, CallsAnswer
    <3> QED
      BY <2>2, <3>1 DEF CallAnswers, Answers
  <2> QED
    BY <2>3, <2>4, <2>5, <2>6 DEF IInv, CallsAnswer
<1>10. CASE PublishFails(p)
  <2> DEFINE s == [c EXCEPT !.pc = "return", !.tmp = None]
  <2>1. s \in GetState /\ get' = [get EXCEPT ![p] = s] /\ UNCHANGED <<revoked, proxied, dir>>
    BY <1>0, <1>10 DEF PublishFails, GetState
  <2>2. CallAnswers(p)'
    BY <1>0, <1>10, <2>1, NoneIsNothing DEF PublishFails, CallAnswers, Answers, Publishing, GetState
  <2> HIDE DEF s
  <2> QED
    BY <2>1, <2>2, <1>0, OneCallMoves
<1> QED
  BY <1>1, <1>3, <1>4, <1>5, <1>6, <1>7, <1>8, <1>9, <1>10 DEF GetStep

(* So does a call made, ended or cut short. *)
LEMMA CallsKeep ==
    ASSUME IInv, NEW p \in Procs, UNCHANGED <<revoked, proxied, dir>>,
           \/ get' = [get EXCEPT ![p] = Idle]
           \/ \E url \in URLs, caching \in BOOLEAN : GetContext(p, url, caching)
    PROVE  IInv'
<1>0. /\ get \in [Procs -> GetState] /\ revoked \subseteq Chips
      /\ proxied \in BOOLEAN
  BY DEF IInv, CacheTypeOK
<1>1. CASE get' = [get EXCEPT ![p] = Idle]
  <2>1. Idle \in GetState
    BY DEF Idle, GetState
  <2>2. CallAnswers(p)'
    BY <1>0, <1>1 DEF CallAnswers, Idle, Publishing
  <2> QED
    BY <1>0, <1>1, <2>1, <2>2, OneCallMoves
<1>2. ASSUME NEW url \in URLs, NEW caching \in BOOLEAN, GetContext(p, url, caching)
      PROVE  IInv'
  <2> DEFINE s == [Idle EXCEPT !.pc = IF caching /\ cacheable(url) THEN "read" ELSE "fetch",
                               !.url = url, !.caching = caching, !.since = revoked]
  <2>1. s \in GetState /\ get' = [get EXCEPT ![p] = s]
    BY <1>0, <1>2 DEF GetContext, Idle, GetState
  <2>2. CallAnswers(p)'
    BY <1>0, <2>1 DEF CallAnswers, Idle, Publishing
  <2> HIDE DEF s
  <2> QED
    BY <1>0, <2>1, <2>2, OneCallMoves
<1> QED
  BY <1>1, <1>2

(* And so do a power loss and a revocation. *)
LEMMA WorldKeeps ==
    ASSUME IInv, PowerLoss \/ \E chip \in Chips : Revoke(chip)
    PROVE  IInv'
<1>0. /\ get \in [Procs -> GetState] /\ revoked \subseteq Chips
      /\ proxied \in BOOLEAN /\ dir \in [Files -> Body \cup {None}]
  BY DEF IInv, CacheTypeOK
<1>1. CASE PowerLoss
  <2> PICK lost \in SUBSET {f \in Files : dir[f] # None} :
           dir' = [f \in Files |-> IF f \in lost THEN Blank ELSE dir[f]]
    BY <1>1 DEF PowerLoss
  <2>1. get' = [q \in Procs |-> Idle] /\ UNCHANGED <<revoked, proxied>>
    BY <1>1 DEF PowerLoss
  <2>2. Idle \in GetState
    BY DEF Idle, GetState
  <2>3. CacheTypeOK'
    BY <1>0, <2>1, <2>2, BlankIsBody DEF CacheTypeOK
  <2>4. FilesAnswer'
    BY <2>1 DEF IInv, FilesAnswer, Answers
  <2>5. CallsAnswer'
    BY <2>1 DEF CallsAnswer, CallAnswers, Idle, Publishing
  <2> QED
    BY <2>3, <2>4, <2>5 DEF IInv
<1>2. ASSUME NEW chip \in Chips, Revoke(chip) PROVE IInv'
  <2>1. CacheTypeOK'
    BY <1>0, <1>2 DEF CacheTypeOK, Revoke
  <2>2. FilesAnswer'
    BY <1>2 DEF IInv, FilesAnswer, Answers, Revoke
  <2>3. CallsAnswer'
    <3> SUFFICES ASSUME NEW q \in Procs PROVE CallAnswers(q)'
      BY DEF CallsAnswer
    <3>1. CallAnswers(q)
      BY DEF IInv, CallsAnswer
    <3> QED
      BY <1>2, <3>1 DEF CallAnswers, Answers, Revoke
  <2> QED
    BY <2>1, <2>2, <2>3 DEF IInv
<1> QED
  BY <1>1, <1>2

LEMMA StepKeeps == IInv /\ [CacheNext]_cacheVars => IInv'
<1> SUFFICES ASSUME IInv, [CacheNext]_cacheVars PROVE IInv'
  OBVIOUS
<1>1. ASSUME NEW p \in Procs, GetStep(p) PROVE IInv'
  BY <1>1, GetStepKeeps
<1>2. ASSUME NEW p \in Procs, Crash(p) PROVE IInv'
  BY <1>2, CallsKeep DEF Crash
<1>3. ASSUME NEW p \in Procs, Return(p), UNCHANGED <<revoked, proxied, dir>> PROVE IInv'
  BY <1>3, CallsKeep DEF Return
<1>4. ASSUME NEW p \in Procs, NEW url \in URLs, NEW caching \in BOOLEAN,
             GetContext(p, url, caching), UNCHANGED <<revoked, proxied, dir>>
      PROVE  IInv'
  BY <1>4, CallsKeep
<1>5. CASE PowerLoss \/ \E chip \in Chips : Revoke(chip)
  BY <1>5, WorldKeeps
<1>6. CASE UNCHANGED cacheVars
  BY <1>6 DEF cacheVars, IInv, CacheTypeOK, FilesAnswer, CallsAnswer, CallAnswers, Answers
<1> QED
  BY <1>1, <1>2, <1>3, <1>4, <1>5, <1>6 DEF CacheNext

-----------------------------------------------------------------------------
(* Whatever calls overlap, fail or die in the middle of a publication and  *)
(* whenever the machine stops, a call that GetContext answers is handed    *)
(* all of an answer to its own URL, and a revocation list as recent as the *)
(* call.                                                                   *)
THEOREM CacheHandsAnswers == CacheSpec => []HandedIsAnswer
<1>1. IInv => HandedIsAnswer
  BY DEF IInv, CallsAnswer, CallAnswers, Answers, HandedIsAnswer
<1> QED
  BY <1>1, InitHolds, StepKeeps, PTL DEF CacheSpec

-----------------------------------------------------------------------------
Fields == {"pc", "req", "platform", "env", "params", "vcek", "since", "failed", "res", "posted"}

(* The evidence verified is the certificate's, and the expectation is the  *)
(* binding to its key.                                                     *)
Routed(c) ==
    \E r \in Prepared(c.req) : /\ c.env = r.env /\ c.params = r.params
                               /\ c.platform = NormalizePlatform(r.env.Platform).tag

SnpRouted(c) == Routed(c) /\ VerifiesAs(c.env) = "snp" /\ c.env.quote.kind = "report"

(* The chip was not revoked when the call was made, if that was asked. *)
Unrevoked(c) == c.req.opts.CheckRevocations => c.vcek.chip \notin c.since

SnpAccepts(c) ==
    /\ SnpRouted(c) /\ HardwareVerifies(c.env.quote, c.vcek) /\ Unrevoked(c)
    /\ PolicyHolds(c.env.quote, c.params)

OtherAccepts(c) ==
    Routed(c) /\ VerifiesAs(c.env) = "other" /\ OtherVerifies(c.env, c.params)

(* What the verification c has established where it is; g is its call of   *)
(* the getter.                                                             *)
Established(c, g) ==
    /\ c.pc \in {"vcek", "verify", "crl", "validate"} => SnpRouted(c)
    /\ c.pc \in {"crl", "validate"} => HardwareVerifies(c.env.quote, c.vcek)
    /\ c.pc = "crl" => /\ g.url = crlURL(c.vcek.line) /\ c.req.opts.CheckRevocations
                       /\ c.since \subseteq g.since
    /\ c.pc = "validate" => Unrevoked(c)
    /\ (c.pc = "done" /\ c.res = "accepted") => SnpAccepts(c) \/ OtherAccepts(c)

CallSound(p) ==
    /\ DOMAIN call[p] = Fields
    /\ call[p].since \subseteq revoked
    /\ call[p].pc # "idle" => call[p].req \in Requests[scenario][p]
    /\ Established(call[p], get[p])

CallsSound ==
    /\ scenario \in DOMAIN Requests
    /\ DOMAIN call = Procs
    /\ \A p \in Procs : CallSound(p)

Sound == IInv /\ CallsSound

-----------------------------------------------------------------------------
(* The pieces. *)

(* A chain that verifies is anchored in built-in roots, whose revocation   *)
(* list has a URL and is never kept (vcekProductRoots, cacheable).         *)
LEMMA VerifiedLine ==
    ASSUME NEW report, NEW vcek, HardwareVerifies(report, vcek)
    PROVE  /\ vcek.line \in Bundled
           /\ crlURL(vcek.line) \in URLs /\ ~cacheable(crlURL(vcek.line))
<1>1. PICK roots \in IF report.signer = "vcek" THEN vcekProductRoots(report, vcek)
                     ELSE {{}} :
         LibraryVerifies(report, vcek, roots)
    BY DEF HardwareVerifies
<1>2. roots \subseteq Bundled
    BY <1>1 DEF vcekProductRoots
<1>3. vcek.line \in Bundled
    BY <1>1, <1>2 DEF LibraryVerifies, AnchorLine
<1>4. crlURL(vcek.line) \in URLs
    BY <1>3, CrlsAssumption
<1>5. crlURL(vcek.line).path = "crl"
    BY DEF crlURL
<1> QED BY <1>3, <1>4, <1>5 DEF cacheable

(* A step of one call of the getter leaves what was asked, and every other *)
(* call, alone.                                                            *)
LEMMA GetterKeepsCall ==
    ASSUME IInv, NEW p \in Procs, GetStep(p)
    PROVE  /\ get'[p].url = get[p].url /\ get'[p].since = get[p].since
           /\ \A q \in Procs : q # p => get'[q] = get[q]
           /\ revoked' = revoked
<1>1. get \in [Procs -> GetState] /\ get[p] \in GetState
    BY DEF IInv, CacheTypeOK
<1>2. DOMAIN get[p] = {"pc", "url", "caching", "body", "tmp", "since", "failed"}
    BY <1>1 DEF GetState
<1> QED BY <1>1, <1>2 DEF GetStep, ReadFile, Fetch, FetchProxied, FetchFails, Answered,
                          CreateTemp, WriteStarts, WriteEnds, Rename, PublishFails

(* One verification moves: the others are as sound as they were. *)
LEMMA OneMoves ==
    ASSUME CallsSound, NEW p \in Procs, NEW c, call' = [call EXCEPT ![p] = c],
           scenario' = scenario, revoked \subseteq revoked',
           \A q \in Procs : q # p => get'[q] = get[q],
           DOMAIN c = Fields, c.since \subseteq revoked',
           c.pc # "idle" => c.req \in Requests[scenario][p],
           Established(c, get'[p])
    PROVE  CallsSound'
<1>1. DOMAIN call' = Procs /\ call'[p] = c
    BY DEF CallsSound
<1>2. CallSound(p)'
    BY <1>1 DEF CallSound
<1>3. ASSUME NEW q \in Procs, q # p PROVE CallSound(q)'
    <2>1. CallSound(q) /\ call'[q] = call[q] /\ get'[q] = get[q]
        BY <1>3 DEF CallsSound
    <2> QED BY <2>1 DEF CallSound
<1> QED BY <1>1, <1>2, <1>3 DEF CallsSound

(* A call that has not begun, or ended without accepting, has nothing to   *)
(* show.                                                                   *)
LEMMA NothingToShow ==
    ASSUME NEW c, NEW g, c.pc = "idle" \/ (c.pc = "done" /\ c.res # "accepted")
    PROVE  Established(c, g)
<1> QED BY DEF Established

(* What a verifier starts from. *)
LEMMA StartShape ==
    /\ DOMAIN NoCall = Fields /\ NoCall.pc = "idle" /\ NoCall.since = {}
<1> QED BY DEF NoCall, Fields

-----------------------------------------------------------------------------
(* The steps of one verification. *)

(* A certificate is fetched for a request that has a URL for it. *)
LEMMA FetchedHasURL ==
    ASSUME CallsSound, NEW p \in Procs, NEW req \in Requests[scenario][p],
           NEW r \in Prepared(req), verifySNP(r.env, req.opts.getter),
           MustFetch(r.env.quote, r.env.vcek, req.opts.getter)
    PROVE  vcekURL(r.env.quote) \subseteq URLs
<1>1. CollateralFits(req)
    BY RequestsAssumption DEF CallsSound
<1> QED BY <1>1 DEF CollateralFits, verifySNP

(* Offline verification starts with the evidence of the certificate. *)
LEMMA BeginSound ==
    ASSUME Sound, NEW p \in Procs, NEW req \in Requests[scenario][p], Begin(p, req),
           scenario' = scenario
    PROVE  CallsSound'
<1> DEFINE New == [NoCall EXCEPT !.req = req, !.since = revoked]
           Refused == [New EXCEPT !.pc = "done", !.res = "refused"]
<1>0. CallsSound /\ DOMAIN get = Procs
    BY DEF Sound, IInv, CacheTypeOK
<1>1. /\ DOMAIN New = Fields /\ New.req = req /\ New.since = revoked /\ New.pc = "idle"
      /\ DOMAIN Refused = Fields /\ Refused.req = req /\ Refused.since = revoked
      /\ Refused.pc = "done" /\ Refused.res = "refused"
    BY DEF NoCall, Fields
<1> HIDE DEF New
<1>2. CASE call' = [call EXCEPT ![p] = Refused] /\ UNCHANGED_Cache
    <2>1. Established(Refused, get'[p])
        BY <1>1, NothingToShow
    <2> HIDE DEF Refused
    <2>2. revoked' = revoked /\ get' = get
        BY <1>2 DEF UNCHANGED_Cache, cacheVars
    <2> QED BY <1>0, <1>1, <1>2, <2>1, <2>2, OneMoves
<1>3. ASSUME NEW r \in Prepared(req), VerifiesAs(r.env) # "snp", UNCHANGED_Cache,
             call' = [call EXCEPT ![p] =
                IF VerifiesAs(r.env) = "other" /\ OtherVerifies(r.env, r.params)
                THEN [[New EXCEPT !.env = r.env, !.params = r.params,
                                  !.platform = NormalizePlatform(r.env.Platform).tag]
                         EXCEPT !.pc = "done", !.res = "accepted"]
                ELSE Refused]
      PROVE  CallsSound'
    <2> DEFINE c == [New EXCEPT !.env = r.env, !.params = r.params,
                                !.platform = NormalizePlatform(r.env.Platform).tag]
               a == [c EXCEPT !.pc = "done", !.res = "accepted"]
    <2>1. CASE VerifiesAs(r.env) = "other" /\ OtherVerifies(r.env, r.params)
        <3>1. /\ DOMAIN c = Fields /\ c.req = req /\ c.since = revoked
              /\ c.env = r.env /\ c.params = r.params
              /\ c.platform = NormalizePlatform(r.env.Platform).tag
            BY <1>1 DEF Fields
        <3> HIDE DEF c
        <3>2. /\ DOMAIN a = Fields /\ a.req = req /\ a.since = revoked
              /\ a.env = r.env /\ a.params = r.params /\ a.pc = "done"
              /\ a.platform = NormalizePlatform(r.env.Platform).tag
            BY <3>1 DEF Fields
        <3>3. call' = [call EXCEPT ![p] = a]
            BY <1>3, <2>1 DEF c
        <3> HIDE DEF a
        <3>4. OtherAccepts(a)
            BY <2>1, <3>2 DEF OtherAccepts, Routed
        <3>5. Established(a, get'[p])
            BY <3>2, <3>4 DEF Established
        <3>6. revoked' = revoked /\ get' = get
            BY <1>3 DEF UNCHANGED_Cache, cacheVars
        <3> QED BY <1>0, <3>2, <3>3, <3>5, <3>6, OneMoves
    <2>2. CASE ~(VerifiesAs(r.env) = "other" /\ OtherVerifies(r.env, r.params))
        BY <1>2, <1>3, <2>2
    <2> QED BY <2>1, <2>2
<1>4. ASSUME NEW r \in Prepared(req), VerifiesAs(r.env) = "snp",
             verifySNP(r.env, req.opts.getter),
             NEW s \in {"verify", "vcek"}, NEW v,
             LET c == [New EXCEPT !.env = r.env, !.params = r.params,
                                  !.platform = NormalizePlatform(r.env.Platform).tag]
             IN  call' = [call EXCEPT ![p] = [c EXCEPT !.pc = s, !.vcek = v]],
             revoked' = revoked, \A q \in Procs : q # p => get'[q] = get[q]
      PROVE  CallsSound'
    <2> DEFINE c == [New EXCEPT !.env = r.env, !.params = r.params,
                                !.platform = NormalizePlatform(r.env.Platform).tag]
               a == [c EXCEPT !.pc = s, !.vcek = v]
    <2>1. /\ DOMAIN c = Fields /\ c.req = req /\ c.since = revoked
          /\ c.env = r.env /\ c.params = r.params
          /\ c.platform = NormalizePlatform(r.env.Platform).tag
        BY <1>1 DEF Fields
    <2>2. call' = [call EXCEPT ![p] = a]
        BY <1>4
    <2> HIDE DEF c
    <2>3. /\ DOMAIN a = Fields /\ a.req = req /\ a.since = revoked
          /\ a.env = r.env /\ a.params = r.params /\ a.pc = s
          /\ a.platform = NormalizePlatform(r.env.Platform).tag
        BY <2>1 DEF Fields
    <2> HIDE DEF a
    <2>4. SnpRouted(a)
        BY <1>4, <2>3 DEF SnpRouted, Routed, verifySNP
    <2>5. Established(a, get'[p])
        BY <1>4, <2>3, <2>4 DEF Established
    <2> QED BY <1>0, <1>4, <2>2, <2>3, <2>5, OneMoves
<1>5. CASE Prepared(req) = {} /\ call' = [call EXCEPT ![p] = Refused] /\ UNCHANGED_Cache
    BY <1>2, <1>5
<1>6. ASSUME NEW r \in Prepared(req), VerifiesAs(r.env) = "snp",
             LET c == [New EXCEPT !.env = r.env, !.params = r.params,
                                  !.platform = NormalizePlatform(r.env.Platform).tag]
                 admitted == verifySNP(r.env, req.opts.getter)
                 fetched == admitted /\ MustFetch(r.env.quote, r.env.vcek, req.opts.getter)
             IN  \/ /\ ~admitted \/ (fetched /\ vcekURL(r.env.quote) = {})
                    /\ call' = [call EXCEPT ![p] = Refused]
                    /\ UNCHANGED_Cache
                 \/ /\ admitted /\ ~fetched
                    /\ call' = [call EXCEPT ![p] = [c EXCEPT !.pc = "verify",
                                                             !.vcek = r.env.vcek]]
                    /\ UNCHANGED_Cache
                 \/ /\ fetched
                    /\ call' = [call EXCEPT ![p] = [c EXCEPT !.pc = "vcek"]]
                    /\ \E url \in vcekURL(r.env.quote) :
                          GetContext(p, url, req.opts.getter = "caching")
                    /\ UNCHANGED <<revoked, proxied, dir>>
      PROVE  CallsSound'
    <2> DEFINE c == [New EXCEPT !.env = r.env, !.params = r.params,
                                !.platform = NormalizePlatform(r.env.Platform).tag]
    <2>1. CASE call' = [call EXCEPT ![p] = Refused] /\ UNCHANGED_Cache
        BY <1>2, <2>1
    <2>2. CASE /\ verifySNP(r.env, req.opts.getter)
               /\ call' = [call EXCEPT ![p] = [c EXCEPT !.pc = "verify", !.vcek = r.env.vcek]]
               /\ UNCHANGED_Cache
        <3>1. revoked' = revoked /\ get' = get
            BY <2>2 DEF UNCHANGED_Cache, cacheVars
        <3> QED BY <1>4, <1>6, <2>2, <3>1
    <2>3. CASE /\ verifySNP(r.env, req.opts.getter)
               /\ call' = [call EXCEPT ![p] = [c EXCEPT !.pc = "vcek"]]
               /\ \E url \in vcekURL(r.env.quote) :
                     GetContext(p, url, req.opts.getter = "caching")
               /\ UNCHANGED <<revoked, proxied, dir>>
        <3>1. [c EXCEPT !.pc = "vcek"] = [c EXCEPT !.pc = "vcek", !.vcek = c.vcek]
            <4>1. DOMAIN c = Fields
                BY <1>1
            <4> HIDE DEF c
            <4> QED BY <4>1 DEF Fields
        <3>2. \A q \in Procs : q # p => get'[q] = get[q]
            BY <1>0, <2>3 DEF GetContext
        <3>3. call' = [call EXCEPT ![p] = [c EXCEPT !.pc = "vcek", !.vcek = c.vcek]]
            BY <2>3, <3>1
        <3> QED BY <1>4, <1>6, <2>3, <3>2, <3>3
    <2> QED BY <1>6, <2>1, <2>2, <2>3
<1> QED BY <1>3, <1>5, <1>6 DEF Begin, New

(* Verification by a service leaves nothing to show offline. *)
LEMMA ServiceSound ==
    ASSUME Sound, NEW p \in Procs, NEW req \in Requests[scenario][p], BeginService(p, req),
           scenario' = scenario
    PROVE  CallsSound'
<1>1. PICK posted : call' = [call EXCEPT ![p] =
         [NoCall EXCEPT !.req = req, !.pc = "done", !.posted = posted,
                        !.res = IF posted = None THEN "refused" ELSE "posted"]]
    BY DEF BeginService
<1> DEFINE c == [NoCall EXCEPT !.req = req, !.pc = "done", !.posted = posted,
                               !.res = IF posted = None THEN "refused" ELSE "posted"]
<1>2. /\ DOMAIN c = Fields /\ c.req = req /\ c.since = {} /\ c.pc = "done"
      /\ c.res \in {"refused", "posted"}
    BY DEF NoCall, Fields
<1>3. revoked' = revoked /\ get' = get
    BY DEF BeginService, UNCHANGED_Cache, cacheVars
<1>4. call' = [call EXCEPT ![p] = c]
    BY <1>1
<1> HIDE DEF c
<1>5. Established(c, get'[p])
    BY <1>2, NothingToShow
<1> QED BY <1>2, <1>3, <1>4, <1>5, OneMoves DEF Sound

(* A certificate taken from the cache goes into verification. *)
LEMMA VcekSound ==
    ASSUME Sound, NEW p \in Procs, TakeVcek(p), scenario' = scenario
    PROVE  CallsSound'
<1> DEFINE c == call[p]
           done == get[p].body = None
           d == [c EXCEPT !.pc = IF done THEN "done" ELSE "verify",
                          !.res = IF done THEN "unavailable" ELSE c.res,
                          !.vcek = IF done THEN c.vcek ELSE Parsed(get[p].body),
                          !.failed = IF done THEN get[p].failed ELSE c.failed]
<1>1. CallsSound /\ CallSound(p) /\ DOMAIN c = Fields /\ c.pc = "vcek" /\ DOMAIN call = Procs
      /\ SnpRouted(c) /\ c.since \subseteq revoked /\ c.req \in Requests[scenario][p]
    BY DEF Sound, CallsSound, CallSound, Established, TakeVcek
<1>2. call' = [call EXCEPT ![p] = d]
    <2>1. CASE done
        <3>1. call' = [call EXCEPT ![p] = [c EXCEPT !.pc = "done", !.res = "unavailable",
                                                    !.failed = get[p].failed]]
            BY <1>1, <2>1 DEF TakeVcek
        <3>2. d = [c EXCEPT !.pc = "done", !.res = "unavailable", !.failed = get[p].failed]
            <4> HIDE DEF c
            <4> QED BY <1>1, <2>1 DEF Fields
        <3> QED BY <3>1, <3>2
    <2>2. CASE ~done
        <3>1. call' = [call EXCEPT ![p] = [c EXCEPT !.pc = "verify",
                                                    !.vcek = Parsed(get[p].body)]]
            BY <1>1, <2>2 DEF TakeVcek
        <3>2. d = [c EXCEPT !.pc = "verify", !.vcek = Parsed(get[p].body)]
            <4> HIDE DEF c
            <4> QED BY <1>1, <2>2 DEF Fields
        <3> QED BY <3>1, <3>2
    <2> QED BY <2>1, <2>2
<1>3. /\ DOMAIN d = Fields /\ d.since = c.since /\ d.req = c.req /\ SnpRouted(d)
      /\ d.pc = IF done THEN "done" ELSE "verify"
      /\ d.res = IF done THEN "unavailable" ELSE c.res
    <2> HIDE DEF c, done
    <2>1. /\ DOMAIN d = Fields /\ d.since = c.since /\ d.req = c.req /\ d.env = c.env
          /\ d.params = c.params /\ d.platform = c.platform
          /\ d.pc = IF done THEN "done" ELSE "verify"
          /\ d.res = IF done THEN "unavailable" ELSE c.res
        BY <1>1 DEF Fields
    <2> HIDE DEF d
    <2> QED BY <1>1, <2>1 DEF SnpRouted, Routed
<1> HIDE DEF d
<1>4. Established(d, get'[p])
    BY <1>3 DEF Established
<1>5. revoked' = revoked /\ \A q \in Procs : q # p => get'[q] = get[q]
    BY DEF TakeVcek, Return, Sound, IInv, CacheTypeOK
<1> HIDE DEF c
<1> QED BY <1>1, <1>2, <1>3, <1>4, <1>5, OneMoves

(* Verification passes only what the certificate endorses. *)
LEMMA VerifySound ==
    ASSUME Sound, NEW p \in Procs, Verify(p), scenario' = scenario
    PROVE  CallsSound'
<1> DEFINE c == call[p]
<1>1. /\ CallsSound /\ DOMAIN c = Fields /\ c.pc = "verify" /\ DOMAIN call = Procs
      /\ SnpRouted(c) /\ c.since \subseteq revoked /\ c.req \in Requests[scenario][p]
      /\ get \in [Procs -> GetState]
    BY DEF Sound, CallsSound, CallSound, Established, Verify, IInv, CacheTypeOK
<1>2. CASE Finish(p, "refused") /\ UNCHANGED_Cache
    <2> DEFINE d == [c EXCEPT !.pc = "done", !.res = "refused"]
    <2>1. call' = [call EXCEPT ![p] = d] /\ revoked' = revoked /\ get' = get
        BY <1>1, <1>2 DEF Finish, UNCHANGED_Cache, cacheVars
    <2>2. DOMAIN d = Fields /\ d.since = c.since /\ d.req = c.req
          /\ d.pc = "done" /\ d.res = "refused"
        BY <1>1 DEF Fields
    <2> HIDE DEF d, c
    <2>3. Established(d, get'[p])
        BY <2>2, NothingToShow
    <2> QED BY <1>1, <2>1, <2>2, <2>3, OneMoves
<1>3. ASSUME HardwareVerifies(Report(p), c.vcek), NEW s \in {"validate", "crl"},
             call' = [call EXCEPT ![p].pc = s], revoked' = revoked,
             \A q \in Procs : q # p => get'[q] = get[q],
             s = "validate" => ~c.req.opts.CheckRevocations,
             s = "crl" => /\ c.req.opts.CheckRevocations
                          /\ get'[p].url = crlURL(c.vcek.line) /\ get'[p].since = revoked
      PROVE  CallsSound'
    <2> DEFINE d == [c EXCEPT !.pc = s]
    <2>1. call' = [call EXCEPT ![p] = d]
        BY <1>1, <1>3
    <2>2. /\ DOMAIN d = Fields /\ d.since = c.since /\ d.req = c.req
          /\ d.pc = s /\ d.vcek = c.vcek /\ d.env = c.env /\ SnpRouted(d)
        <3>1. /\ DOMAIN d = Fields /\ d.since = c.since /\ d.req = c.req /\ d.env = c.env
              /\ d.pc = s /\ d.vcek = c.vcek /\ d.params = c.params /\ d.platform = c.platform
            BY <1>1 DEF Fields
        <3> HIDE DEF d, c
        <3> QED BY <1>1, <3>1 DEF SnpRouted, Routed
    <2>3. Report(p) = d.env.quote
        BY <2>2 DEF Report
    <2> HIDE DEF d, c
    <2>4. Established(d, get'[p])
        BY <1>1, <1>3, <2>2, <2>3 DEF Established, Unrevoked
    <2> QED BY <1>1, <1>3, <2>1, <2>2, <2>4, OneMoves
<1>4. CASE /\ HardwareVerifies(Report(p), call[p].vcek)
           /\ ~call[p].req.opts.CheckRevocations
           /\ call' = [call EXCEPT ![p].pc = "validate"]
           /\ UNCHANGED_Cache
    <2>1. revoked' = revoked /\ get' = get
        BY <1>4 DEF UNCHANGED_Cache, cacheVars
    <2> QED BY <1>3, <1>4, <2>1
<1>5. CASE /\ HardwareVerifies(Report(p), call[p].vcek)
           /\ call[p].req.opts.CheckRevocations
           /\ call' = [call EXCEPT ![p].pc = "crl"]
           /\ GetContext(p, crlURL(call[p].vcek.line), Getter(p) = "caching")
           /\ UNCHANGED <<revoked, proxied, dir>>
    <2>1. /\ \A q \in Procs : q # p => get'[q] = get[q]
          /\ get'[p].url = crlURL(c.vcek.line) /\ get'[p].since = revoked
        BY <1>1, <1>5 DEF GetContext, Idle
    <2> QED BY <1>3, <1>5, <2>1
<1> QED BY <1>2, <1>4, <1>5 DEF Verify

(* The list that arrived answers the request made for it, so it names every *)
(* chip that was revoked when this verification began.                      *)
LEMMA CrlSound ==
    ASSUME Sound, NEW p \in Procs, TakeCrl(p), scenario' = scenario
    PROVE  CallsSound'
<1> DEFINE c == call[p]
           b == get[p].body
           bad == b = None \/ (b # None /\ b.url = None) \/ (b # None /\ c.vcek.chip \in b.revoked)
<1>1. /\ CallsSound /\ DOMAIN c = Fields /\ c.pc = "crl" /\ DOMAIN call = Procs
      /\ SnpRouted(c) /\ c.since \subseteq revoked /\ c.req \in Requests[scenario][p]
      /\ HardwareVerifies(c.env.quote, c.vcek)
      /\ get[p].url = crlURL(c.vcek.line) /\ c.since \subseteq get[p].since
      /\ get \in [Procs -> GetState] /\ CallAnswers(p) /\ get[p].pc = "return"
    BY DEF Sound, CallsSound, CallSound, Established, TakeCrl, IInv, CacheTypeOK, CallsAnswer
<1>2. revoked' = revoked /\ \A q \in Procs : q # p => get'[q] = get[q]
    BY <1>1 DEF TakeCrl, Return
<1>3. CASE bad
    <2> DEFINE d == [c EXCEPT !.pc = "done", !.res = "refused", !.failed = get[p].failed]
    <2>1. call' = [call EXCEPT ![p] = d]
        BY <1>1, <1>3 DEF TakeCrl
    <2>2. /\ DOMAIN d = Fields /\ d.since = c.since /\ d.req = c.req
          /\ d.pc = "done" /\ d.res = "refused"
        BY <1>1 DEF Fields
    <2> HIDE DEF d, c
    <2>3. Established(d, get'[p])
        BY <2>2, NothingToShow
    <2> QED BY <1>1, <1>2, <2>1, <2>2, <2>3, OneMoves
<1>4. CASE ~bad
    <2> DEFINE d == [c EXCEPT !.pc = "validate"]
    <2>1. call' = [call EXCEPT ![p] = d]
        BY <1>1, <1>4 DEF TakeCrl
    <2>2. /\ DOMAIN d = Fields /\ d.since = c.since /\ d.req = c.req /\ d.env = c.env
          /\ d.pc = "validate" /\ d.vcek = c.vcek /\ SnpRouted(d)
        <3>1. /\ DOMAIN d = Fields /\ d.since = c.since /\ d.req = c.req /\ d.env = c.env
              /\ d.pc = "validate" /\ d.vcek = c.vcek
              /\ d.params = c.params /\ d.platform = c.platform
            BY <1>1 DEF Fields
        <3> HIDE DEF d, c
        <3> QED BY <1>1, <3>1 DEF SnpRouted, Routed
    <2>3. c.vcek.chip \notin c.since
        <3>1. ~cacheable(get[p].url)
            BY <1>1, VerifiedLine
        <3>2. get[p].since \subseteq b.revoked
            BY <1>1, <1>4, <3>1 DEF CallAnswers
        <3> QED BY <1>1, <1>4, <3>2
    <2> HIDE DEF d, c
    <2>4. Established(d, get'[p])
        BY <1>1, <2>2, <2>3 DEF Established, Unrevoked
    <2> QED BY <1>1, <1>2, <2>1, <2>2, <2>4, OneMoves
<1> QED BY <1>3, <1>4

(* Validation accepts only what meets the policy. *)
LEMMA ValidateSound ==
    ASSUME Sound, NEW p \in Procs, Validate(p), scenario' = scenario
    PROVE  CallsSound'
<1> DEFINE c == call[p]
           ok == /\ PolicyHolds(c.env.quote, c.params)
                 /\ c.params.ExpectedReportData # None
           d == [c EXCEPT !.pc = "done", !.res = IF ok THEN "accepted" ELSE "refused"]
<1>1. /\ CallsSound /\ DOMAIN c = Fields /\ c.pc = "validate" /\ DOMAIN call = Procs
      /\ SnpRouted(c) /\ c.since \subseteq revoked /\ c.req \in Requests[scenario][p]
      /\ HardwareVerifies(c.env.quote, c.vcek) /\ Unrevoked(c)
    BY DEF Sound, CallsSound, CallSound, Established, Validate
<1>2. call' = [call EXCEPT ![p] = d] /\ revoked' = revoked /\ get' = get
    BY <1>1 DEF Validate, Finish, Report, UNCHANGED_Cache, cacheVars
<1> HIDE DEF ok
<1>3. /\ DOMAIN d = Fields /\ d.since = c.since /\ d.req = c.req /\ d.env = c.env
      /\ d.pc = "done" /\ d.vcek = c.vcek /\ d.params = c.params /\ d.platform = c.platform
      /\ d.res = IF ok THEN "accepted" ELSE "refused"
    BY <1>1 DEF Fields
<1> HIDE DEF d, c
<1>4. ASSUME ok PROVE SnpAccepts(d)
    BY <1>1, <1>3, <1>4 DEF SnpAccepts, SnpRouted, Routed, Unrevoked, ok
<1>5. Established(d, get'[p])
    BY <1>3, <1>4 DEF Established
<1> QED BY <1>1, <1>2, <1>3, <1>5, OneMoves

(* A process that is done with a call, or died in it, starts afresh. *)
LEMMA EndSound ==
    ASSUME Sound, NEW p \in Procs, call' = [call EXCEPT ![p] = NoCall],
           revoked' = revoked, \A q \in Procs : q # p => get'[q] = get[q],
           scenario' = scenario
    PROVE  CallsSound'
<1>1. Established(NoCall, get'[p])
    BY StartShape, NothingToShow
<1> QED BY <1>1, StartShape, OneMoves DEF Sound

(* A step of the getter changes nothing the call relies on. *)
LEMMA GettingSound ==
    ASSUME Sound, NEW p \in Procs, Getting(p), scenario' = scenario
    PROVE  CallsSound'
<1>1. /\ get'[p].url = get[p].url /\ get'[p].since = get[p].since
      /\ \A q \in Procs : q # p => get'[q] = get[q]
      /\ revoked' = revoked /\ call' = call
    BY GetterKeepsCall DEF Getting, Sound
<1>2. ASSUME NEW q \in Procs PROVE CallSound(q)'
    <2>1. CallSound(q)
        BY DEF Sound, CallsSound
    <2>2. get'[q].url = get[q].url /\ get'[q].since = get[q].since
        BY <1>1
    <2> QED BY <1>1, <2>1, <2>2 DEF CallSound, Established
<1> QED BY <1>1, <1>2 DEF Sound, CallsSound

-----------------------------------------------------------------------------
(* All steps. *)

(* A verification uses the cache as the cache may be used, and otherwise   *)
(* leaves it alone.                                                        *)
LEMMA StepIsCacheStep ==
    ASSUME Sound, [Next]_vars
    PROVE  [CacheNext]_cacheVars
<1>1. CASE UNCHANGED vars
    BY <1>1 DEF vars
<1>2. CASE UNCHANGED_Cache
    BY <1>2 DEF UNCHANGED_Cache
<1>3. ASSUME NEW p \in Procs, NEW url \in URLs, NEW caching \in BOOLEAN,
             GetContext(p, url, caching), UNCHANGED <<revoked, proxied, dir>>
      PROVE  CacheNext
    BY <1>3 DEF CacheNext
<1>4. ASSUME NEW p \in Procs, NEW req \in Requests[scenario][p], Begin(p, req)
      PROVE  [CacheNext]_cacheVars
    <2>1. ASSUME NEW r \in Prepared(req), verifySNP(r.env, req.opts.getter),
                 MustFetch(r.env.quote, r.env.vcek, req.opts.getter),
                 \E url \in vcekURL(r.env.quote) :
                    GetContext(p, url, req.opts.getter = "caching"),
                 UNCHANGED <<revoked, proxied, dir>>
          PROVE  CacheNext
        <3>1. vcekURL(r.env.quote) \subseteq URLs
            BY <2>1, FetchedHasURL DEF Sound
        <3>2. (req.opts.getter = "caching") \in BOOLEAN
            OBVIOUS
        <3> QED BY <1>3, <2>1, <3>1, <3>2
    <2> QED BY <1>2, <1>4, <2>1 DEF Begin
<1>5. ASSUME NEW p \in Procs, Validate(p) \/ End(p) PROVE [CacheNext]_cacheVars
    BY <1>2, <1>5 DEF Validate, End
<1>6. ASSUME NEW p \in Procs, TakeVcek(p) \/ TakeCrl(p) PROVE CacheNext
    BY <1>6 DEF TakeVcek, TakeCrl, CacheNext
<1>7. ASSUME NEW p \in Procs, Verify(p) PROVE [CacheNext]_cacheVars
    <2>1. ASSUME HardwareVerifies(Report(p), call[p].vcek),
                 GetContext(p, crlURL(call[p].vcek.line), Getter(p) = "caching"),
                 UNCHANGED <<revoked, proxied, dir>>
          PROVE  CacheNext
        <3>1. crlURL(call[p].vcek.line) \in URLs /\ (Getter(p) = "caching") \in BOOLEAN
            BY <2>1, VerifiedLine
        <3> QED BY <1>3, <2>1, <3>1
    <2> QED BY <1>2, <1>7, <2>1 DEF Verify
<1>8. ASSUME NEW p \in Procs, Getting(p) \/ CrashCall(p) PROVE CacheNext
    BY <1>8 DEF Getting, CrashCall, CacheNext
<1>9. CASE PowerLossCalls \/ RevokeChip
    BY <1>9 DEF PowerLossCalls, RevokeChip, CacheNext
<1>10. ASSUME NEW p \in Procs, NEW req, BeginService(p, req) PROVE [CacheNext]_cacheVars
    BY <1>2, <1>10 DEF BeginService
<1> QED BY <1>1, <1>4, <1>5, <1>6, <1>7, <1>8, <1>9, <1>10 DEF Next

(* Every step keeps every verification sound. *)
LEMMA StepSound == Sound /\ [Next]_vars => Sound'
<1> SUFFICES ASSUME Sound, [Next]_vars PROVE Sound'
    OBVIOUS
<1>0. IInv'
    <2>1. [CacheNext]_cacheVars
        BY StepIsCacheStep
    <2> QED BY <2>1, StepKeeps DEF Sound
<1>1. CASE UNCHANGED vars
    <2>1. call' = call /\ scenario' = scenario /\ get' = get /\ revoked' = revoked
        BY <1>1 DEF vars, cacheVars
    <2>2. CallsSound'
        BY <2>1 DEF Sound, CallsSound, CallSound
    <2> QED BY <1>0, <2>2 DEF Sound
<1>2. ASSUME Next PROVE CallsSound'
    <2>0. scenario' = scenario /\ DOMAIN get = Procs
        BY <1>2 DEF Next, Sound, IInv, CacheTypeOK
    <2>1. ASSUME NEW p \in Procs, NEW req \in Requests[scenario][p],
                 Begin(p, req) \/ BeginService(p, req)
          PROVE  CallsSound'
        BY <2>0, <2>1, BeginSound, ServiceSound
    <2>2. ASSUME NEW p \in Procs,
                 TakeVcek(p) \/ Verify(p) \/ TakeCrl(p) \/ Validate(p) \/ Getting(p)
          PROVE  CallsSound'
        BY <2>0, <2>2, VcekSound, VerifySound, CrlSound, ValidateSound, GettingSound
    <2>3. ASSUME NEW p \in Procs, End(p) PROVE CallsSound'
        BY <2>0, <2>3, EndSound DEF End, UNCHANGED_Cache, cacheVars
    <2>4. ASSUME NEW p \in Procs, CrashCall(p) PROVE CallsSound'
        <3>1. /\ call' = [call EXCEPT ![p] = NoCall] /\ revoked' = revoked
              /\ \A q \in Procs : q # p => get'[q] = get[q]
            BY <2>0, <2>4 DEF CrashCall, Crash
        <3> QED BY <2>0, <3>1, EndSound
    <2>5. CASE PowerLossCalls
        <3>1. call' = [p \in Procs |-> NoCall] /\ revoked' = revoked
            BY <2>5 DEF PowerLossCalls, PowerLoss
        <3>2. ASSUME NEW p \in Procs PROVE CallSound(p)'
            BY <3>1, StartShape, NothingToShow DEF CallSound
        <3> QED BY <2>0, <3>1, <3>2 DEF Sound, CallsSound
    <2>6. CASE RevokeChip
        <3>1. revoked \subseteq revoked' /\ get' = get /\ call' = call
            BY <2>6 DEF RevokeChip, Revoke
        <3>2. ASSUME NEW p \in Procs PROVE CallSound(p)'
            <4>1. CallSound(p)
                BY DEF Sound, CallsSound
            <4> QED BY <2>0, <3>1, <4>1 DEF CallSound
        <3> QED BY <2>0, <3>1, <3>2 DEF Sound, CallsSound
    <2> QED BY <1>2, <2>1, <2>2, <2>3, <2>4, <2>5, <2>6 DEF Next
<1> QED BY <1>0, <1>1, <1>2 DEF Sound

(* There is nothing to show before the first call. *)
LEMMA StartsSound == Init => Sound
<1> SUFFICES ASSUME Init PROVE Sound
    OBVIOUS
<1>1. IInv
    BY InitHolds DEF Init
<1>2. ASSUME NEW p \in Procs PROVE CallSound(p)
    BY StartShape, NothingToShow DEF Init, CallSound
<1> QED BY <1>1, <1>2 DEF Init, Sound, CallsSound

(* Every verification, wherever it is, has made sure of what it goes on    *)
(* to rely on.                                                             *)
THEOREM AlwaysSound == Spec => []Sound
<1> QED BY StartsSound, StepSound, PTL DEF Spec

(* Attested TLS uses the certificate cache the way module KdsCache says it *)
(* is used, so all that is proved of the cache holds here.                 *)
THEOREM ImplementsCache == Spec => CacheSpec
<1>1. Init => CacheInit
    BY DEF Init
<1>2. Sound /\ [Next]_vars => [CacheNext]_cacheVars
    BY StepIsCacheStep
<1> QED BY <1>1, <1>2, AlwaysSound, PTL DEF Spec, CacheSpec

(* What a verification is handed by the cache is all of one answer.        *)
THEOREM VerificationsAreHandedAnswers == Spec => []HandedIsAnswer
<1> QED BY ImplementsCache, CacheHandsAnswers, PTL

-----------------------------------------------------------------------------
(* What is accepted. *)

(* A request as the model takes it. *)
LEMMA RequestFits ==
    ASSUME CallsSound, NEW p \in Procs, call[p].pc # "idle"
    PROVE  ParamsFit(call[p].req) /\ EvidenceFits(call[p].req)
<1>1. call[p].req \in Requests[scenario][p] /\ scenario \in DOMAIN Requests
    BY DEF CallsSound, CallSound
<1> QED BY <1>1, RequestsAssumption

(* The attestation of an extension is of the family the extension declares, *)
(* and so is the envelope made of it, around the quote that was embedded.   *)
LEMMA EnvelopeOfExtension ==
    ASSUME NEW ext, NEW att \in UnmarshalExtension(ext), NEW env \in Envelope(att),
           DOMAIN ext.Report = {"shape", "env"},
           DOMAIN ext.Report.env = {"Platform", "quote", "form", "vcek", "eventlog"}
    PROVE  /\ familyFromWire(ext.teeType) = {att.Family}
           /\ Family(env.Platform) = att.Family
           /\ env.quote = ext.Report.env.quote
<1> DEFINE pl == ext.Report
<1>1. PICK f \in familyFromWire(ext.teeType) :
         \E a \in newAttestation(f, pl, ext.CertChain) : att = [a EXCEPT !.list = ext.list]
    BY DEF UnmarshalExtension
<1>2. PICK a \in newAttestation(f, pl, ext.CertChain) : att = [a EXCEPT !.list = ext.list]
    BY <1>1
<1>3. familyFromWire(ext.teeType) = {f} /\ f \in {"sev-snp", "tdx"}
    BY <1>1 DEF familyFromWire
<1>4. PICK rep : /\ a = [Family |-> f, Report |-> rep, CertChain |-> ext.CertChain,
                         list |-> << >>]
                 /\ \/ /\ pl.shape = "json"
                       /\ rep = [pl EXCEPT !.env.Platform = NormalizePlatform(@)]
                       /\ Family(pl.env.Platform) = f
                    \/ /\ pl.shape # "json" /\ f = "sev-snp"
                       /\ rep = [pl EXCEPT !.shape = "raw"]
    BY <1>2, <1>3 DEF newAttestation, NormalizeSEVSNPReport, wireTEEType
<1>5. att.Family = f /\ att.Report = rep
    BY <1>2, <1>4
<1>6. CASE /\ pl.shape = "json"
           /\ rep = [pl EXCEPT !.env.Platform = NormalizePlatform(@)]
           /\ Family(pl.env.Platform) = f
    <2>1. rep.shape = "json" /\ rep.env.quote = pl.env.quote
          /\ rep.env.Platform = NormalizePlatform(pl.env.Platform)
        BY <1>6
    <2>2. env = rep.env
        BY <1>5, <2>1 DEF Envelope
    <2> QED BY <1>3, <1>5, <1>6, <2>1, <2>2 DEF Family, NormalizePlatform
<1>7. CASE pl.shape # "json" /\ f = "sev-snp" /\ rep = [pl EXCEPT !.shape = "raw"]
    <2>1. rep.shape = "raw" /\ rep.env = pl.env
        BY <1>7
    <2>2. /\ env.Platform = [tag |-> "snp", canonical |-> TRUE]
          /\ env.quote = pl.env.quote
        BY <1>5, <1>7, <2>1 DEF Envelope
    <2> QED BY <1>3, <1>5, <1>7, <2>2 DEF Family, NormalizePlatform
<1> QED BY <1>4, <1>6, <1>7

(* What either way of verifying starts from is the certificate's evidence, *)
(* and what it must bind is the certificate's key.                         *)
LEMMA PreparedIs ==
    ASSUME NEW req, EvidenceFits(req), NEW r \in Prepared(req)
    PROVE  /\ r.params = [req.params EXCEPT !.ExpectedReportData =
                            ReportDataForKey(req.cert.key, req.nonce)]
           /\ familyFromWire(req.cert.ext.teeType) = {Family(r.env.Platform)}
           /\ r.env.quote = req.cert.ext.Report.env.quote
           /\ r.env.quote.family = IF r.env.quote.kind \in {"report", "vtpm-snp"}
                                    THEN "sev-snp" ELSE "tdx"
<1>1. PICK att \in ExtractAttestation(req.cert), key \in publicKeyFromCert(req.cert) :
         \E env \in Envelope(att),
            anchor \in bindingAnchor(key, req.nonce, req.params.ExpectedReportData) :
              r = [att |-> att, env |-> env,
                   params |-> [req.params EXCEPT !.ExpectedReportData = anchor]]
    BY DEF Prepared, attestationAndKey
<1>2. PICK env \in Envelope(att),
           anchor \in bindingAnchor(key, req.nonce, req.params.ExpectedReportData) :
         r = [att |-> att, env |-> env,
              params |-> [req.params EXCEPT !.ExpectedReportData = anchor]]
    BY <1>1
<1>3. key = req.cert.key /\ anchor = ReportDataForKey(req.cert.key, req.nonce)
    BY <1>1, <1>2 DEF publicKeyFromCert, bindingAnchor
<1>4. req.cert.ext # None /\ att \in UnmarshalExtension(req.cert.ext)
    BY <1>1 DEF ExtractAttestation
<1>5. /\ DOMAIN req.cert.ext.Report = {"shape", "env"}
      /\ DOMAIN req.cert.ext.Report.env = {"Platform", "quote", "form", "vcek", "eventlog"}
      /\ req.cert.ext.Report.env.quote.family =
            IF req.cert.ext.Report.env.quote.kind \in {"report", "vtpm-snp"}
            THEN "sev-snp" ELSE "tdx"
    BY <1>4 DEF EvidenceFits
<1>6. /\ familyFromWire(req.cert.ext.teeType) = {Family(env.Platform)}
      /\ env.quote = req.cert.ext.Report.env.quote
    BY <1>2, <1>4, <1>5, EnvelopeOfExtension
<1> QED BY <1>2, <1>3, <1>5, <1>6

(* A chip AMD had revoked when the call was made is not accepted by a call *)
(* that checks revocations, however long its certificate has been cached.  *)
THEOREM RevokedAreNotAccepted == Spec => []RevokedNotAccepted
<1>1. Sound => RevokedNotAccepted
    <2> SUFFICES ASSUME Sound, NEW p \in Procs, Done(p, "accepted"),
                        Report(p).kind = "report", call[p].req.opts.CheckRevocations
                 PROVE  call[p].vcek.chip \notin call[p].since
        BY DEF RevokedNotAccepted
    <2>1. SnpAccepts(call[p]) \/ OtherAccepts(call[p])
        BY DEF Sound, CallsSound, CallSound, Established, Done
    <2>2. ~OtherAccepts(call[p])
        BY DEF OtherAccepts, OtherVerifies, KindOf, Report
    <2> QED BY <2>1, <2>2 DEF SnpAccepts, Unrevoked
<1> QED BY <1>1, AlwaysSound, PTL

(* Padding to the width of a field is appending zeros. *)
LEMMA PadAppendsZeros ==
    ASSUME NEW S, NEW b \in Seq(S), NEW n \in Nat, Len(b) <= n
    PROVE  pad(b, n) = b \o [i \in 1..(n - Len(b)) |-> Zero]
<1> DEFINE z == [i \in 1..(n - Len(b)) |-> Zero]
<1>1. z \in Seq({Zero}) /\ Len(z) = n - Len(b)
    OBVIOUS
<1>2. b \in Seq(S \cup {Zero}) /\ z \in Seq(S \cup {Zero})
    BY <1>1
<1> HIDE DEF z
<1>3. b \o z \in Seq(S \cup {Zero}) /\ Len(b \o z) = n
    BY <1>1, <1>2
<1>4. ASSUME NEW i \in 1..n PROVE (b \o z)[i] = pad(b, n)[i]
    <2>1. i > Len(b) => z[i - Len(b)] = Zero
        BY DEF z
    <2> QED BY <1>1, <1>2, <2>1 DEF pad
<1> QED BY <1>3, <1>4 DEF pad, z

(* An accepted SEV-SNP peer is what the caller asked for: the values it    *)
(* expects are the report's to their last byte, every component of its TCB *)
(* meets the floor, and it is a debug guest only where that is allowed.    *)
THEOREM AcceptedMeetPolicy == Spec => []AcceptedMeetsPolicy
<1>1. Sound => AcceptedMeetsPolicy
    <2> SUFFICES ASSUME Sound, NEW p \in Procs, Done(p, "accepted"), Report(p).kind = "report"
                 PROVE  LET params == call[p].req.params
                            report == Report(p)
                            hash == params.ExpectedInitDataHash
                        IN  /\ report.vmpl = 0 /\ (report.debug => params.AllowDebug)
                            /\ \A i \in 1..2 : report.tcb[i] >= params.MinTCB.tcb[i]
                            /\ ~params.MinTCB.fmc
                            /\ params.ExpectedLaunchDigest \in {None, report.launch}
                            /\ hash # None =>
                                  report.host = hash
                                    \o [i \in 1..(HostWidth - Len(hash)) |-> Zero]
        BY DEF AcceptedMeetsPolicy
    <2> DEFINE asked == call[p].req.params
               params == call[p].params
               hash == asked.ExpectedInitDataHash
               report == Report(p)
    <2>1. SnpAccepts(call[p])
        <3>1. ~OtherAccepts(call[p])
            BY DEF OtherAccepts, OtherVerifies, KindOf, Report
        <3> QED BY <3>1 DEF Sound, CallsSound, CallSound, Established, Done
    <2>2. ParamsFit(call[p].req) /\ EvidenceFits(call[p].req)
        BY RequestFits DEF Sound, Done
    <2>3. /\ DOMAIN asked = {"ExpectedReportData", "ExpectedInitDataHash",
                              "ExpectedLaunchDigest", "AllowDebug", "MinTCB"}
          /\ asked.MinTCB.tcb \in Nat \X Nat
          /\ hash # None => /\ hash \in Seq({hash[i] : i \in DOMAIN hash})
                            /\ pad(hash, HostWidth) # None
        BY <2>2 DEF ParamsFit
    <2>4. params = [asked EXCEPT !.ExpectedReportData =
                       ReportDataForKey(call[p].req.cert.key, call[p].req.nonce)]
        BY <2>1, <2>2, PreparedIs DEF SnpAccepts, SnpRouted, Routed
    <2>5. /\ params.ExpectedInitDataHash = hash
          /\ params.ExpectedLaunchDigest = asked.ExpectedLaunchDigest
          /\ params.AllowDebug = asked.AllowDebug /\ params.MinTCB = asked.MinTCB
        BY <2>3, <2>4
    <2>6. PICK o \in validateOptions(params) : LibraryValidates(report, o)
        BY <2>1 DEF SnpAccepts, PolicyHolds, Report
    <2> HIDE DEF params, asked, hash, report
    <2>7. /\ o.host = Padded(hash, HostWidth) /\ o.launch = asked.ExpectedLaunchDigest
          /\ o.debug = asked.AllowDebug /\ o.floor = asked.MinTCB.tcb
          /\ ~asked.MinTCB.fmc /\ (hash # None => ~(Len(hash) > HostWidth))
        BY <2>5, <2>6 DEF validateOptions
    <2>8. /\ report.vmpl = 0 /\ (report.debug => asked.AllowDebug)
          /\ \A i \in 1..2 : report.tcb[i] >= asked.MinTCB.tcb[i]
          /\ asked.ExpectedLaunchDigest \in {None, report.launch}
        BY <2>3, <2>6, <2>7 DEF LibraryValidates
    <2>9. ASSUME hash # None
          PROVE  report.host = hash \o [i \in 1..(HostWidth - Len(hash)) |-> Zero]
        <3>1. report.host = pad(hash, HostWidth)
            BY <2>3, <2>6, <2>7, <2>9 DEF LibraryValidates, Padded
        <3>2. Len(hash) <= HostWidth /\ HostWidth \in Nat
            BY <2>3, <2>7, <2>9 DEF HostWidth
        <3> QED BY <2>3, <2>9, <3>1, <3>2, PadAppendsZeros
    <2> QED BY <2>7, <2>8, <2>9 DEF asked, hash, report
<1> QED BY <1>1, AlwaysSound, PTL

(* A peer that is accepted holds a key that genuine hardware of the family *)
(* its certificate declares committed to, in all of its report data and    *)
(* with the nonce of this connection.                                      *)
THEOREM AcceptedBindTheKey == Spec => []AcceptedBindsKey
<1>1. Sound => AcceptedBindsKey
    <2> SUFFICES ASSUME Sound, NEW p \in Procs, Done(p, "accepted")
                 PROVE  LET req == call[p].req
                            quote == call[p].env.quote
                            anchor == ReportDataForKey(req.cert.key, req.nonce)
                        IN  /\ quote.signed
                            /\ quote.data \in {anchor, pad(anchor, DataWidth)}
                            /\ familyFromWire(req.cert.ext.teeType) = {quote.family}
                            /\ Family([tag |-> call[p].platform, canonical |-> TRUE])
                                  = quote.family
        BY DEF AcceptedBindsKey
    <2> DEFINE c == call[p]
               quote == c.env.quote
               anchor == ReportDataForKey(c.req.cert.key, c.req.nonce)
    <2>1. SnpAccepts(c) \/ OtherAccepts(c)
        BY DEF Sound, CallsSound, CallSound, Established, Done
    <2>2. ParamsFit(c.req) /\ EvidenceFits(c.req)
        BY RequestFits DEF Sound, Done
    <2>3. Routed(c)
        BY <2>1 DEF SnpAccepts, SnpRouted, OtherAccepts
    <2>4. /\ c.params = [c.req.params EXCEPT !.ExpectedReportData = anchor]
          /\ familyFromWire(c.req.cert.ext.teeType) = {Family(c.env.Platform)}
          /\ quote.family = IF quote.kind \in {"report", "vtpm-snp"} THEN "sev-snp" ELSE "tdx"
          /\ c.platform = c.env.Platform.tag
        BY <2>2, <2>3, PreparedIs DEF Routed, NormalizePlatform
    <2>5. Family([tag |-> c.platform, canonical |-> TRUE]) = Family(c.env.Platform)
        BY <2>4 DEF Family, NormalizePlatform
    <2>6. /\ c.params.ExpectedReportData = anchor /\ anchor # None
          /\ pad(anchor, DataWidth) # None
        BY <2>2, <2>4 DEF ParamsFit
    <2> HIDE DEF c, anchor
    <2>7. CASE SnpAccepts(c)
        <3>1. quote.signed
            BY <2>7 DEF SnpAccepts, HardwareVerifies, LibraryVerifies
        <3>2. quote.data = pad(anchor, DataWidth)
            <4>1. PICK o \in validateOptions(c.params) : LibraryValidates(quote, o)
                BY <2>7 DEF SnpAccepts, PolicyHolds
            <4>2. o.reportData = pad(anchor, DataWidth)
                BY <2>6, <4>1 DEF validateOptions, Padded
            <4> QED BY <2>6, <4>1, <4>2 DEF LibraryValidates
        <3>3. quote.family = Family(c.env.Platform)
            BY <2>4, <2>7 DEF SnpAccepts, SnpRouted, VerifiesAs, Family, NormalizePlatform
        <3> QED BY <2>4, <2>5, <3>1, <3>2, <3>3 DEF c, anchor
    <2>8. CASE OtherAccepts(c)
        <3>1. quote.signed /\ quote.data \in {anchor, pad(anchor, DataWidth)}
            BY <2>6, <2>8 DEF OtherAccepts, OtherVerifies
        <3>2. quote.family = Family(c.env.Platform)
            BY <2>4, <2>8 DEF OtherAccepts, OtherVerifies, KindOf, VerifiesAs, Family,
                              NormalizePlatform
        <3> QED BY <2>4, <2>5, <3>1, <3>2 DEF c, anchor
    <2> QED BY <2>1, <2>7, <2>8
<1> QED BY <1>1, AlwaysSound, PTL

-----------------------------------------------------------------------------
(* Certificates made with this package. *)

(* What a guest embeds: its evidence in an envelope or, from bare SEV-SNP, *)
(* the report with its certificate beside it.                              *)
LEMMA AttestationMade ==
    ASSUME NEW made, NEW a \in NewAttestation(made), made.Platform \in PlatformType,
           DOMAIN made = {"Platform", "quote", "form", "vcek", "eventlog"}
    PROVE  LET f == Family(made.Platform)
           IN  /\ f \in {"sev-snp", "tdx"}
               /\ a.Report = [shape |-> a.Report.shape, env |-> a.Report.env]
               /\ a = [Family |-> f, Report |-> a.Report, CertChain |-> a.CertChain,
                       list |-> << >>]
               /\ a.Report.env.quote = made.quote
               /\ \/ /\ a.Report.shape = "json" /\ (f = "tdx" \/ HasVTPMQuote(made.Platform))
                     /\ a.Report.env.Platform = NormalizePlatform(made.Platform)
                     /\ a.Report.env = [e \in DOMAIN made |-> a.Report.env[e]]
                  \/ /\ a.Report.shape = "raw" /\ f = "sev-snp" /\ ~HasVTPMQuote(made.Platform)
                     /\ a.CertChain = made.vcek
<1> DEFINE f == Family(made.Platform)
           n == NormalizePlatform(made.Platform)
<1>1. PICK pl \in EvidenceForExtension(made) :
         a \in newAttestation(f, pl, IF pl.shape = "raw" THEN made.vcek ELSE None)
    BY DEF NewAttestation
<1>2. n.tag = made.Platform.tag /\ Family(n) = f /\ (HasVTPMQuote(n) <=> HasVTPMQuote(made.Platform))
    BY DEF NormalizePlatform, Family, HasVTPMQuote
<1>3. f \in {"sev-snp", "tdx"}
    BY <1>1, <1>2 DEF EvidenceForExtension, Family
<1>4. CASE HasVTPMQuote(n) \/ f = "tdx"
    <2>1. PICK e \in {made, stripTDXEventlog(made)} :
             pl = [shape |-> "json", env |-> [e EXCEPT !.Platform = n]]
        BY <1>1, <1>2, <1>3, <1>4 DEF EvidenceForExtension
    <2>2. /\ DOMAIN e = {"Platform", "quote", "form", "vcek", "eventlog"}
          /\ e.quote = made.quote
        BY <2>1 DEF stripTDXEventlog
    <2>3. /\ DOMAIN pl = {"shape", "env"} /\ pl.shape = "json"
          /\ DOMAIN pl.env = {"Platform", "quote", "form", "vcek", "eventlog"}
          /\ pl.env.Platform = n /\ pl.env.quote = made.quote
        BY <2>1, <2>2
    <2> HIDE DEF f, n
    <2>4. a = [Family |-> f, Report |-> [pl EXCEPT !.env.Platform = NormalizePlatform(@)],
               CertChain |-> None, list |-> << >>]
        BY <1>1, <1>3, <2>3 DEF newAttestation, wireTEEType
    <2>5. NormalizePlatform(n) = n
        BY DEF NormalizePlatform, n
    <2>6. /\ a.Report.shape = "json" /\ a.Report = [shape |-> a.Report.shape, env |-> a.Report.env]
          /\ a.Report.env.Platform = n /\ a.Report.env.quote = made.quote
          /\ a.Report.env = [x \in DOMAIN made |-> a.Report.env[x]]
        BY <2>3, <2>4, <2>5
    <2>7. a = [Family |-> f, Report |-> a.Report, CertChain |-> a.CertChain, list |-> << >>]
        BY <2>4
    <2> QED BY <1>2, <1>3, <1>4, <2>6, <2>7 DEF f, n
<1>5. CASE ~HasVTPMQuote(n) /\ f = "sev-snp"
    <2>1. pl = [shape |-> "raw", env |-> made]
        BY <1>1, <1>2, <1>5 DEF EvidenceForExtension, ExtractSNPReport, NormalizeSEVSNPReport
    <2>2. a = [Family |-> f, Report |-> [pl EXCEPT !.shape = "raw"],
               CertChain |-> made.vcek, list |-> << >>]
        BY <1>1, <1>5, <2>1 DEF newAttestation, wireTEEType, NormalizeSEVSNPReport
    <2> QED BY <1>2, <1>5, <2>1, <2>2
<1> QED BY <1>3, <1>4, <1>5

(* Marshalled and unmarshalled, an attestation is what it was. *)
LEMMA RoundTrip ==
    ASSUME NEW made, NEW a \in NewAttestation(made), made.Platform \in PlatformType,
           DOMAIN made = {"Platform", "quote", "form", "vcek", "eventlog"},
           NEW list, NEW ext \in MarshalExtension([a EXCEPT !.list = list])
    PROVE  /\ ext.list = IF a.Family = "tdx" THEN list ELSE << >>
           /\ UnmarshalExtension(ext) = {[a EXCEPT !.list = ext.list]}
<1> DEFINE f == Family(made.Platform)
           b == [a EXCEPT !.list = list]
<1>1. /\ f \in {"sev-snp", "tdx"}
      /\ a.Report = [shape |-> a.Report.shape, env |-> a.Report.env]
      /\ a = [Family |-> f, Report |-> a.Report, CertChain |-> a.CertChain, list |-> << >>]
      /\ \/ /\ a.Report.shape = "json"
            /\ a.Report.env.Platform = NormalizePlatform(made.Platform)
            /\ a.Report.env = [e \in DOMAIN made |-> a.Report.env[e]]
         \/ a.Report.shape = "raw" /\ f = "sev-snp"
    BY AttestationMade
<1>2. a.Family = f
    BY <1>1
<1>3. b.Family = f /\ b.Report = a.Report /\ b.CertChain = a.CertChain /\ b.list = list
    BY <1>1
<1>4. newAttestation(f, a.Report, a.CertChain) = {a}
    <2>1. wireTEEType(f) # {}
        BY <1>1 DEF wireTEEType
    <2>2. CASE /\ a.Report.shape = "json"
               /\ a.Report.env.Platform = NormalizePlatform(made.Platform)
               /\ a.Report.env = [e \in DOMAIN made |-> a.Report.env[e]]
        <3> DEFINE n == NormalizePlatform(made.Platform)
        <3>1. n \in {t \in PlatformType : t.tag # "" /\ Family(t) = f} /\ NormalizePlatform(n) = n
            BY <1>1 DEF PlatformType, NormalizePlatform, Family
        <3>2. a.Report = [a.Report EXCEPT !.env.Platform = NormalizePlatform(@)]
            <4> HIDE DEF n
            <4>1. a.Report.env = [a.Report.env EXCEPT !.Platform = NormalizePlatform(@)]
                BY <1>1, <2>2, <3>1 DEF n
            <4> QED BY <1>1, <4>1
        <3> HIDE DEF n, f
        <3>3. newAttestation(f, a.Report, a.CertChain) =
                {[Family |-> f, Report |-> a.Report, CertChain |-> a.CertChain, list |-> << >>]}
            <4>1. {a.Report.env.Platform} \cap {t \in PlatformType : t.tag # "" /\ Family(t) = f}
                    = {n}
                BY <2>2, <3>1 DEF n
            <4>2. {[a.Report EXCEPT !.env.Platform = NormalizePlatform(@)] :
                     q \in {a.Report.env.Platform} \cap
                           {t \in PlatformType : t.tag # "" /\ Family(t) = f}} = {a.Report}
                <5> DEFINE x == [a.Report EXCEPT !.env.Platform = NormalizePlatform(@)]
                           S == {a.Report.env.Platform} \cap
                                {t \in PlatformType : t.tag # "" /\ Family(t) = f}
                <5>1. x = a.Report /\ S = {n}
                    BY <3>2, <4>1
                <5> HIDE DEF x, S
                <5>2. {x : q \in S} = {a.Report}
                    BY <5>1
                <5> QED BY <5>2 DEF x, S
            <4> QED BY <2>1, <2>2, <4>2 DEF newAttestation
        <3> QED BY <1>1, <3>3
    <2>3. CASE a.Report.shape = "raw" /\ f = "sev-snp"
        <3>1. a.Report = [a.Report EXCEPT !.shape = "raw"]
            BY <1>1, <2>3
        <3>2. newAttestation(f, a.Report, a.CertChain) =
                {[Family |-> f, Report |-> a.Report, CertChain |-> a.CertChain, list |-> << >>]}
            <4> HIDE DEF f
            <4> QED BY <2>1, <2>3, <3>1 DEF newAttestation, NormalizeSEVSNPReport
        <3> QED BY <1>1, <3>2
    <2> QED BY <1>1, <2>2, <2>3
<1> HIDE DEF b, f
<1>5. PICK t \in wireTEEType(f) :
         ext = [teeType |-> t, Report |-> a.Report, CertChain |-> a.CertChain,
                list |-> IF f = "tdx" THEN list ELSE << >>, trailing |-> FALSE]
    BY <1>3 DEF MarshalExtension, b
<1>6. f = "tdx" => checkRuntimeExtensions("tdx", list)
    BY <1>3 DEF MarshalExtension, b
<1>7. checkRuntimeExtensions(f, ext.list)
    BY <1>1, <1>5, <1>6 DEF checkRuntimeExtensions, MaxRuntimeExtensions
<1>8. familyFromWire(ext.teeType) = {f}
    BY <1>1, <1>5 DEF wireTEEType, familyFromWire
<1>9. {g \in familyFromWire(ext.teeType) : ~ext.trailing /\ checkRuntimeExtensions(g, ext.list)}
        = {f}
    BY <1>5, <1>7, <1>8
<1> QED BY <1>2, <1>4, <1>5, <1>9 DEF UnmarshalExtension

(* What a peer starts from is what the guest embedded. *)
LEMMA MadeIsPrepared ==
    ASSUME NEW req, MadeFits(req), req.cert.made # None,
           NEW r \in Prepared(req)
    PROVE  LET made == req.cert.made
           IN  /\ r.env.quote = made.quote
               /\ Posted(r).claimed = IF Family(r.env.Platform) = "tdx"
                                      THEN req.cert.measured ELSE << >>
               /\ IF made.quote.kind = "report"
                  THEN VerifiesAs(r.env) = "snp" /\ r.env.vcek = made.vcek
                  ELSE VerifiesAs(r.env) = "other" /\ KindOf(r.env) = made.quote.kind
<1> DEFINE made == req.cert.made
           f == Family(made.Platform)
           ext == req.cert.ext
<1>1. /\ made.Platform \in PlatformType
      /\ DOMAIN made = {"Platform", "quote", "form", "vcek", "eventlog"}
      /\ made.quote.kind = IF f = "sev-snp" /\ ~HasVTPMQuote(made.Platform)
                           THEN "report" ELSE KindOf(made)
      /\ ext # None
    BY DEF MadeFits
<1>2. PICK a \in NewAttestation(made) : ext \in MarshalExtension([a EXCEPT !.list = req.cert.measured])
    BY DEF MadeFits
<1>3. /\ ext.list = IF a.Family = "tdx" THEN req.cert.measured ELSE << >>
      /\ UnmarshalExtension(ext) = {[a EXCEPT !.list = ext.list]}
    BY <1>1, <1>2, RoundTrip
<1>4. PICK att \in ExtractAttestation(req.cert) :
         \E env \in Envelope(att) : r.att = att /\ r.env = env
    BY DEF Prepared, attestationAndKey
<1> DEFINE env == r.env
<1>5. att = [a EXCEPT !.list = ext.list]
    BY <1>1, <1>3, <1>4 DEF ExtractAttestation
<1>6. /\ f \in {"sev-snp", "tdx"}
      /\ a = [Family |-> f, Report |-> a.Report, CertChain |-> a.CertChain, list |-> << >>]
      /\ a.Report.env.quote = made.quote
      /\ \/ /\ a.Report.shape = "json" /\ (f = "tdx" \/ HasVTPMQuote(made.Platform))
            /\ a.Report.env.Platform = NormalizePlatform(made.Platform)
         \/ /\ a.Report.shape = "raw" /\ f = "sev-snp" /\ ~HasVTPMQuote(made.Platform)
            /\ a.CertChain = made.vcek
    BY <1>1, <1>2, AttestationMade
<1>7. /\ att.Family = f /\ att.Report = a.Report /\ att.CertChain = a.CertChain
      /\ att.list = ext.list
    BY <1>5, <1>6
<1>8. a.Family = f
    BY <1>6
<1>9. CASE /\ a.Report.shape = "json" /\ (f = "tdx" \/ HasVTPMQuote(made.Platform))
           /\ a.Report.env.Platform = NormalizePlatform(made.Platform)
    <2>1. env.quote = made.quote /\ env.Platform = NormalizePlatform(made.Platform)
        BY <1>4, <1>6, <1>7, <1>9 DEF Envelope
    <2>2. env.Platform.tag = made.Platform.tag
        BY <2>1 DEF NormalizePlatform
    <2>3. Family(env.Platform) = f /\ KindOf(env) = KindOf(made)
        BY <2>2 DEF Family, KindOf, NormalizePlatform
    <2>4. VerifiesAs(env) = "other"
        BY <1>6, <1>9, <2>2 DEF VerifiesAs, Family, HasVTPMQuote, NormalizePlatform
    <2>5. made.quote.kind = KindOf(made) /\ KindOf(made) # "report"
        BY <1>1, <1>9 DEF KindOf
    <2> HIDE DEF made, f, ext
    <2>6. Posted(r).claimed = IF Family(env.Platform) = "tdx" THEN req.cert.measured ELSE << >>
        BY <1>3, <1>4, <1>7, <1>8, <2>3 DEF Posted
    <2> QED BY <1>4, <2>1, <2>3, <2>4, <2>5, <2>6 DEF made
<1>10. CASE /\ a.Report.shape = "raw" /\ f = "sev-snp" /\ ~HasVTPMQuote(made.Platform)
            /\ a.CertChain = made.vcek
    <2>1. /\ env.quote = made.quote /\ env.vcek = made.vcek
          /\ env.Platform = [tag |-> "snp", canonical |-> TRUE]
        BY <1>4, <1>6, <1>7, <1>10 DEF Envelope
    <2>2. Family(env.Platform) = "sev-snp" /\ VerifiesAs(env) = "snp"
        BY <2>1 DEF Family, VerifiesAs, NormalizePlatform
    <2>3. made.quote.kind = "report"
        BY <1>1, <1>10
    <2> HIDE DEF made, f, ext
    <2>4. Posted(r).claimed = << >>
        BY <1>4, <1>7, <1>10 DEF Posted
    <2> QED BY <1>4, <2>1, <2>2, <2>3, <2>4 DEF made
<1> QED BY <1>6, <1>9, <1>10

(* A guest's own certificate can always be prepared, unless its key is one *)
(* that is not bound or the caller asks for another binding.               *)
LEMMA MadeCanBePrepared ==
    ASSUME NEW req, MadeFits(req), req.cert.made # None, req.cert.key # "rsa",
           req.params.ExpectedReportData \in {None, ReportDataForKey(req.cert.key, req.nonce)}
    PROVE  Prepared(req) # {}
<1> DEFINE made == req.cert.made
           ext == req.cert.ext
<1>1. /\ made.Platform \in PlatformType
      /\ DOMAIN made = {"Platform", "quote", "form", "vcek", "eventlog"}
      /\ ext # None
    BY DEF MadeFits
<1>2. PICK a \in NewAttestation(made) : ext \in MarshalExtension([a EXCEPT !.list = req.cert.measured])
    BY DEF MadeFits
<1> DEFINE att == [a EXCEPT !.list = ext.list]
<1>3. att \in ExtractAttestation(req.cert)
    <2>1. UnmarshalExtension(ext) = {att}
        BY <1>1, <1>2, RoundTrip
    <2> HIDE DEF att
    <2> QED BY <1>1, <2>1 DEF ExtractAttestation
<1>4. Envelope(att) # {}
    <2>1. /\ a = [Family |-> Family(made.Platform), Report |-> a.Report,
                  CertChain |-> a.CertChain, list |-> << >>]
          /\ a.Report.shape = "json" \/ Family(made.Platform) = "sev-snp"
        BY <1>1, <1>2, AttestationMade
    <2>2. att.Family = Family(made.Platform) /\ att.Report = a.Report
        BY <2>1
    <2> HIDE DEF att, made
    <2> QED BY <2>1, <2>2 DEF Envelope
<1>5. PICK env : env \in Envelope(att)
    BY <1>4
<1> HIDE DEF att
<1>6. req.cert.key \in publicKeyFromCert(req.cert)
    BY DEF publicKeyFromCert
<1>7. ReportDataForKey(req.cert.key, req.nonce)
        \in bindingAnchor(req.cert.key, req.nonce, req.params.ExpectedReportData)
    BY DEF bindingAnchor
<1>8. [att |-> att, key |-> req.cert.key] \in attestationAndKey(req.cert)
    BY <1>3, <1>6 DEF attestationAndKey
<1>9. [att |-> att, env |-> env,
       params |-> [req.params EXCEPT !.ExpectedReportData =
                      ReportDataForKey(req.cert.key, req.nonce)]] \in Prepared(req)
    BY <1>5, <1>7, <1>8 DEF Prepared
<1> QED BY <1>9

-----------------------------------------------------------------------------
(* What is due to a guest's own certificate. *)

(* The verdict on c may be other than accepted: its guest did not deserve  *)
(* it, was revoked, or its collateral was not to be had.                   *)
Excused(c) == proxied \/ c.failed \/ ~Deserves(c.req) \/ PeerRevoked(c.req)

(* A certificate that verifies the report and is its chip's is in hand. *)
InHand(c) ==
    HardwareVerifies(c.env.quote, c.vcek) /\ c.vcek.chip = PeerChip(c.req.cert.made)

Due(p) ==
    LET c == call[p]
    IN  /\ c.pc \in {"vcek", "verify", "crl", "validate"} =>
              c.req.via = "offline" /\ c.failed = FALSE
        /\ c.pc = "vcek" => /\ get[p].url \in vcekURL(c.env.quote)
                            /\ c.env.vcek = None /\ c.env.quote.signer = "vcek"
        /\ c.pc \in {"verify", "crl", "validate"} => Excused(c) \/ InHand(c)
        /\ (c.pc = "done" /\ c.req.via = "offline") => Excused(c) \/ c.res = "accepted"
        /\ (c.pc = "done" /\ c.req.via = "service") =>
              c.posted \in IF Prepared(c.req) = {} THEN {None}
                           ELSE {Posted(r) : r \in Prepared(c.req)}

Dues == \A p \in Procs : Due(p)

(* The certificate AMD issued for a report's key verifies it. *)
LEMMA EndorsedVerifies ==
    ASSUME NEW quote, NEW vcek, vcek # None, Endorses(vcek, quote), quote.signed,
           quote.cpu \in {"Milan", "Genoa", "Zen4c"},
           quote.cpu = "Zen4c" => quote.signer = "vcek"
    PROVE  HardwareVerifies(quote, vcek)
<1>1. vcek.line = IF quote.cpu = "Zen4c" THEN "Genoa" ELSE quote.cpu
    BY DEF Endorses, kdsProductLine, reportLine, Bundled
<1>2. CASE quote.cpu = "Zen4c"
    <2>1. vcekProductRoots(quote, vcek) = {{"Genoa"}}
        BY <1>1, <1>2 DEF vcekProductRoots, reportLine, Bundled
    <2>2. LibraryVerifies(quote, vcek, {"Genoa"})
        BY <1>1, <1>2 DEF LibraryVerifies, AnchorLine, Endorses
    <2> QED BY <1>2, <2>1, <2>2 DEF HardwareVerifies, Endorses
<1>3. CASE quote.cpu # "Zen4c"
    <2>1. vcekProductRoots(quote, vcek) = {{}}
        BY <1>3 DEF vcekProductRoots, reportLine, Bundled
    <2>2. LibraryVerifies(quote, vcek, {})
        BY <1>1, <1>3 DEF LibraryVerifies, AnchorLine, Endorses, reportLine, Bundled
    <2> QED BY <2>1, <2>2 DEF HardwareVerifies, Endorses
<1> QED BY <1>2, <1>3

(* So does the answer to the URL its own fields name. *)
LEMMA ServedEndorses ==
    ASSUME NEW quote, NEW url \in vcekURL(quote), quote.signer = "vcek"
    PROVE  Endorses(Served(url), quote) /\ Served(url).chip = quote.chip
<1>1. PICK line \in kdsProductLine(quote) :
         url = [path |-> "vcek", line |-> line, chip |-> quote.chip, tcb |-> quote.tcb]
    BY DEF vcekURL
<1>2. kdsProductLine(quote) = {line}
    BY <1>1 DEF kdsProductLine
<1> QED BY <1>1, <1>2 DEF Endorses, Served

(* The binding makes no difference to evidence that has it. *)
LEMMA PolicyStillHolds ==
    ASSUME NEW req, ParamsFit(req), NEW quote, PolicyHolds(quote, req.params),
           quote.data = pad(ReportDataForKey(req.cert.key, req.nonce), DataWidth)
    PROVE  PolicyHolds(quote, [req.params EXCEPT !.ExpectedReportData =
                                  ReportDataForKey(req.cert.key, req.nonce)])
<1> DEFINE anchor == ReportDataForKey(req.cert.key, req.nonce)
           asked == req.params
           params == [asked EXCEPT !.ExpectedReportData = anchor]
<1>1. /\ params.ExpectedReportData = anchor
      /\ params.ExpectedInitDataHash = asked.ExpectedInitDataHash
      /\ params.ExpectedLaunchDigest = asked.ExpectedLaunchDigest
      /\ params.AllowDebug = asked.AllowDebug /\ params.MinTCB = asked.MinTCB
    BY DEF ParamsFit
<1>2. ~(Len(anchor) > DataWidth)
    BY DEF ReportDataForKey, DataWidth
<1>3. anchor # None
    BY DEF ParamsFit
<1>4. PICK o \in validateOptions(asked) : LibraryValidates(quote, o)
    BY DEF PolicyHolds
<1> HIDE DEF anchor, params, asked
<1> DEFINE n == [reportData |-> pad(anchor, DataWidth),
                 host |-> Padded(asked.ExpectedInitDataHash, HostWidth),
                 launch |-> asked.ExpectedLaunchDigest, debug |-> asked.AllowDebug,
                 floor |-> asked.MinTCB.tcb]
<1>5. n \in validateOptions(params)
    BY <1>1, <1>2, <1>3, <1>4 DEF validateOptions, Padded
<1>6. LibraryValidates(quote, n)
    <2>1. /\ o.host = n.host /\ o.launch = n.launch /\ o.debug = n.debug
          /\ o.floor = n.floor /\ n.reportData = quote.data
        BY <1>4 DEF validateOptions, anchor
    <2> HIDE DEF n
    <2> QED BY <1>4, <2>1 DEF LibraryValidates
<1> QED BY <1>5, <1>6 DEF PolicyHolds, params, asked, anchor

(* What begins the verification of a deserving guest. *)
LEMMA DeservingStart ==
    ASSUME NEW req, ParamsFit(req), EvidenceFits(req), MadeFits(req), Deserves(req),
           NEW r \in Prepared(req)
    PROVE  /\ r.env.quote = req.cert.made.quote
           /\ r.env.quote.kind # "report" =>
                 VerifiesAs(r.env) = "other" /\ OtherVerifies(r.env, r.params)
           /\ r.env.quote.kind = "report" =>
                 /\ VerifiesAs(r.env) = "snp" /\ r.env.vcek = req.cert.made.vcek
                 /\ verifySNP(r.env, req.opts.getter)
                 /\ PolicyHolds(r.env.quote, r.params)
                 /\ IF MustFetch(r.env.quote, r.env.vcek, req.opts.getter)
                    THEN vcekURL(r.env.quote) # {}
                    ELSE /\ HardwareVerifies(r.env.quote, r.env.vcek)
                         /\ r.env.vcek.chip = PeerChip(req.cert.made)
<1> DEFINE anchor == ReportDataForKey(req.cert.key, req.nonce)
           quote == r.env.quote
           vcek == r.env.vcek
<1>1. /\ quote = req.cert.made.quote
      /\ IF quote.kind = "report"
         THEN VerifiesAs(r.env) = "snp" /\ vcek = req.cert.made.vcek
         ELSE VerifiesAs(r.env) = "other" /\ KindOf(r.env) = quote.kind
    BY MadeIsPrepared DEF Deserves
<1>2. r.params = [req.params EXCEPT !.ExpectedReportData = anchor]
    BY PreparedIs
<1>3. r.params.ExpectedReportData = anchor
    BY <1>2 DEF ParamsFit
<1>4. ASSUME quote.kind # "report" PROVE OtherVerifies(r.env, r.params)
    <2>1. KindOf(r.env) \in {"vtpm-snp", "vtpm-tdx", "tdx"}
        BY DEF KindOf
    <2>2. /\ quote.signed
          /\ quote.kind = "tdx" => quote.data = pad(anchor, DataWidth)
          /\ quote.kind \in {"vtpm-snp", "vtpm-tdx"} => quote.data = anchor
        BY <1>1 DEF Deserves
    <2> HIDE DEF anchor
    <2> QED BY <1>1, <1>3, <1>4, <2>1, <2>2 DEF OtherVerifies
<1>5. ASSUME quote.kind = "report"
      PROVE  /\ verifySNP(r.env, req.opts.getter)
             /\ PolicyHolds(quote, r.params)
             /\ IF MustFetch(quote, vcek, req.opts.getter) THEN vcekURL(quote) # {}
                ELSE HardwareVerifies(quote, vcek) /\ vcek.chip = PeerChip(req.cert.made)
    <2>1. /\ quote.signed /\ quote.data = pad(anchor, DataWidth)
          /\ quote.version \in 3..5 /\ PolicyHolds(quote, req.params)
          /\ quote.cpu \in {"Milan", "Genoa", "Zen4c"}
          /\ quote.cpu = "Zen4c" => quote.signer = "vcek"
          /\ IF vcek # None THEN Endorses(vcek, quote)
             ELSE /\ quote.signer = "vcek" /\ quote.chip # "masked"
                  /\ req.opts.getter # "none"
        BY <1>1, <1>5 DEF Deserves
    <2>2. PolicyHolds(quote, r.params)
        BY <1>2, <2>1, PolicyStillHolds
    <2>3. verifySNP(r.env, req.opts.getter)
        BY <1>5, <2>1 DEF verifySNP, AdmitsEvidence, AdmitsReport, MinReportVersion,
                          MaxReportVersion, Endorses
    <2>4. CASE vcek = None
        <3>1. MustFetch(quote, vcek, req.opts.getter)
            BY <2>1, <2>4 DEF MustFetch
        <3>2. kdsProductLine(quote) # {}
            BY <2>1 DEF kdsProductLine, reportLine, Bundled
        <3>3. vcekURL(quote) # {}
            BY <2>1, <2>4, <3>2 DEF vcekURL
        <3> QED BY <2>2, <2>3, <3>1, <3>3
    <2>5. CASE vcek # None
        <3>1. ~MustFetch(quote, vcek, req.opts.getter)
            BY <2>5 DEF MustFetch
        <3>2. HardwareVerifies(quote, vcek)
            BY <2>1, <2>5, EndorsedVerifies
        <3>3. vcek.chip = PeerChip(req.cert.made)
            BY <1>1, <1>5, <2>5 DEF PeerChip
        <3> QED BY <2>2, <2>3, <3>1, <3>2, <3>3
    <2> QED BY <2>4, <2>5
<1> QED BY <1>1, <1>4, <1>5

(* One verification moves: what is due to the others is what it was. *)
LEMMA OneIsDue ==
    ASSUME CallsSound, Dues, NEW p \in Procs, NEW c, call' = [call EXCEPT ![p] = c],
           revoked \subseteq revoked', proxied => proxied',
           \A q \in Procs : q # p => get'[q] = get[q],
           Due(p)'
    PROVE  Dues'
<1>1. ASSUME NEW q \in Procs, q # p PROVE Due(q)'
    <2>1. Due(q) /\ call'[q] = call[q] /\ get'[q] = get[q]
        BY <1>1 DEF CallsSound, Dues
    <2>2. Excused(call[q]) => Excused(call[q])'
        BY <2>1 DEF Excused, PeerRevoked
    <2>3. InHand(call[q]) => InHand(call[q])'
        BY <2>1 DEF InHand
    <2> QED BY <2>1, <2>2, <2>3 DEF Due
<1> QED BY <1>1 DEF Dues

(* A request as the model takes it, when the call is made. *)
LEMMA NewRequestFits ==
    ASSUME CallsSound, NEW p \in Procs, NEW req \in Requests[scenario][p]
    PROVE  ParamsFit(req) /\ EvidenceFits(req) /\ MadeFits(req)
<1> QED BY RequestsAssumption DEF CallsSound

(* What begins: a guest that deserves it is not refused here. *)
LEMMA BeginDue ==
    ASSUME Sound, Dues, NEW p \in Procs, NEW req \in Requests[scenario][p], Begin(p, req)
    PROVE  Dues'
<1> DEFINE New == [NoCall EXCEPT !.req = req, !.since = revoked]
           Refused == [New EXCEPT !.pc = "done", !.res = "refused"]
           Snp(r) == [New EXCEPT !.env = r.env, !.params = r.params,
                                 !.platform = NormalizePlatform(r.env.Platform).tag]
<1>0. /\ CallsSound /\ DOMAIN get = Procs /\ DOMAIN call = Procs /\ req.via = "offline"
      /\ ParamsFit(req) /\ EvidenceFits(req) /\ MadeFits(req)
    BY NewRequestFits DEF Sound, IInv, CacheTypeOK, CallsSound, Begin
<1>1. /\ DOMAIN New = Fields /\ New.req = req /\ New.failed = FALSE
      /\ Refused.req = req /\ Refused.pc = "done"
    BY DEF NoCall, Fields
<1>2. ASSUME NEW r PROVE
         /\ DOMAIN Snp(r) = Fields /\ Snp(r).req = req /\ Snp(r).env = r.env
         /\ Snp(r).failed = FALSE
    <2> HIDE DEF New
    <2> QED BY <1>1 DEF Fields
<1> HIDE DEF New, Refused, Snp
<1>3. ASSUME ~Deserves(req), call' = [call EXCEPT ![p] = Refused], UNCHANGED_Cache
      PROVE  Dues'
    <2>1. call'[p] = Refused /\ revoked' = revoked /\ proxied' = proxied /\ get' = get
        BY <1>0, <1>3 DEF UNCHANGED_Cache, cacheVars
    <2>2. Excused(call[p])'
        BY <1>1, <1>3, <2>1 DEF Excused
    <2>3. Due(p)'
        BY <1>0, <1>1, <2>1, <2>2 DEF Due
    <2> QED BY <1>0, <1>3, <2>1, <2>3, OneIsDue
<1>4. CASE Prepared(req) = {} /\ call' = [call EXCEPT ![p] = Refused] /\ UNCHANGED_Cache
    <2>1. ~Deserves(req)
        BY <1>0, <1>4, MadeCanBePrepared DEF Deserves
    <2> QED BY <1>3, <1>4, <2>1
<1>5. ASSUME NEW r \in Prepared(req), VerifiesAs(r.env) # "snp", UNCHANGED_Cache,
             call' = [call EXCEPT ![p] =
                IF VerifiesAs(r.env) = "other" /\ OtherVerifies(r.env, r.params)
                THEN [Snp(r) EXCEPT !.pc = "done", !.res = "accepted"] ELSE Refused]
      PROVE  Dues'
    <2>1. CASE VerifiesAs(r.env) = "other" /\ OtherVerifies(r.env, r.params)
        <3> DEFINE a == [Snp(r) EXCEPT !.pc = "done", !.res = "accepted"]
        <3>1. a.pc = "done" /\ a.res = "accepted" /\ a.req = req
            BY <1>2 DEF Fields
        <3>2. /\ call' = [call EXCEPT ![p] = a] /\ call'[p] = a
              /\ revoked' = revoked /\ proxied' = proxied /\ get' = get
            BY <1>0, <1>5, <2>1 DEF UNCHANGED_Cache, cacheVars
        <3> HIDE DEF a
        <3>3. Due(p)'
            BY <1>0, <3>1, <3>2 DEF Due
        <3> QED BY <1>0, <3>2, <3>3, OneIsDue
    <2>2. CASE ~(VerifiesAs(r.env) = "other" /\ OtherVerifies(r.env, r.params))
        <3>1. ~Deserves(req)
            BY <1>0, <1>5, <2>2, DeservingStart
        <3> QED BY <1>3, <1>5, <2>2, <3>1
    <2> QED BY <2>1, <2>2
<1>6. ASSUME NEW r \in Prepared(req), VerifiesAs(r.env) = "snp",
             LET admitted == verifySNP(r.env, req.opts.getter)
                 fetched == admitted /\ MustFetch(r.env.quote, r.env.vcek, req.opts.getter)
             IN  \/ /\ ~admitted \/ (fetched /\ vcekURL(r.env.quote) = {})
                    /\ call' = [call EXCEPT ![p] = Refused]
                    /\ UNCHANGED_Cache
                 \/ /\ admitted /\ ~fetched
                    /\ call' = [call EXCEPT ![p] = [Snp(r) EXCEPT !.pc = "verify",
                                                                  !.vcek = r.env.vcek]]
                    /\ UNCHANGED_Cache
                 \/ /\ fetched
                    /\ call' = [call EXCEPT ![p] = [Snp(r) EXCEPT !.pc = "vcek"]]
                    /\ \E url \in vcekURL(r.env.quote) :
                          GetContext(p, url, req.opts.getter = "caching")
                    /\ UNCHANGED <<revoked, proxied, dir>>
      PROVE  Dues'
    <2>0. Deserves(req) =>
             /\ verifySNP(r.env, req.opts.getter)
             /\ IF MustFetch(r.env.quote, r.env.vcek, req.opts.getter)
                THEN vcekURL(r.env.quote) # {}
                ELSE /\ HardwareVerifies(r.env.quote, r.env.vcek)
                     /\ r.env.vcek.chip = PeerChip(req.cert.made)
        <3>1. Deserves(req) => r.env.quote.kind = "report"
            BY <1>0, <1>6, DeservingStart
        <3> QED BY <1>0, <3>1, DeservingStart
    <2>1. CASE /\ \/ ~verifySNP(r.env, req.opts.getter)
                  \/ /\ MustFetch(r.env.quote, r.env.vcek, req.opts.getter)
                     /\ vcekURL(r.env.quote) = {}
               /\ call' = [call EXCEPT ![p] = Refused]
               /\ UNCHANGED_Cache
        BY <1>3, <2>0, <2>1
    <2>2. CASE /\ ~MustFetch(r.env.quote, r.env.vcek, req.opts.getter)
               /\ call' = [call EXCEPT ![p] = [Snp(r) EXCEPT !.pc = "verify",
                                                             !.vcek = r.env.vcek]]
               /\ UNCHANGED_Cache
        <3> DEFINE a == [Snp(r) EXCEPT !.pc = "verify", !.vcek = r.env.vcek]
        <3>1. /\ a.pc = "verify" /\ a.req = req /\ a.env = r.env /\ a.vcek = r.env.vcek
              /\ a.failed = FALSE
            BY <1>2 DEF Fields
        <3>2. /\ call' = [call EXCEPT ![p] = a] /\ call'[p] = a
              /\ revoked' = revoked /\ proxied' = proxied /\ get' = get
            BY <1>0, <2>2 DEF UNCHANGED_Cache, cacheVars
        <3> HIDE DEF a
        <3>3. Excused(call[p])' \/ InHand(call[p])'
            BY <2>0, <2>2, <3>1, <3>2 DEF Excused, InHand
        <3>4. Due(p)'
            BY <1>0, <3>1, <3>2, <3>3 DEF Due
        <3> QED BY <1>0, <3>2, <3>4, OneIsDue
    <2>3. CASE /\ MustFetch(r.env.quote, r.env.vcek, req.opts.getter)
               /\ call' = [call EXCEPT ![p] = [Snp(r) EXCEPT !.pc = "vcek"]]
               /\ \E url \in vcekURL(r.env.quote) :
                     GetContext(p, url, req.opts.getter = "caching")
               /\ UNCHANGED <<revoked, proxied, dir>>
        <3> DEFINE a == [Snp(r) EXCEPT !.pc = "vcek"]
        <3>1. a.pc = "vcek" /\ a.req = req /\ a.env = r.env /\ a.failed = FALSE
            BY <1>2 DEF Fields
        <3>2. call' = [call EXCEPT ![p] = a] /\ call'[p] = a
            BY <1>0, <2>3
        <3>3. PICK url \in vcekURL(r.env.quote) : GetContext(p, url, req.opts.getter = "caching")
            BY <2>3
        <3>4. get'[p].url = url /\ \A q \in Procs : q # p => get'[q] = get[q]
            BY <1>0, <3>3 DEF GetContext, Idle
        <3> HIDE DEF a
        <3>5. Due(p)'
            BY <1>0, <2>3, <3>1, <3>2, <3>3, <3>4 DEF Due, MustFetch
        <3> QED BY <1>0, <2>3, <3>2, <3>4, <3>5, OneIsDue
    <2> QED BY <1>6, <2>1, <2>2, <2>3
<1> QED BY <1>4, <1>5, <1>6 DEF Begin, New, Refused, Snp

(* What the service is posted is what was prepared. *)
LEMMA ServiceDue ==
    ASSUME Sound, Dues, NEW p \in Procs, NEW req \in Requests[scenario][p],
           BeginService(p, req)
    PROVE  Dues'
<1>1. PICK posted \in IF Prepared(req) = {} THEN {None} ELSE {Posted(r) : r \in Prepared(req)} :
         call' = [call EXCEPT ![p] =
            [NoCall EXCEPT !.req = req, !.pc = "done", !.posted = posted,
                           !.res = IF posted = None THEN "refused" ELSE "posted"]]
    BY DEF BeginService
<1> DEFINE c == [NoCall EXCEPT !.req = req, !.pc = "done", !.posted = posted,
                               !.res = IF posted = None THEN "refused" ELSE "posted"]
<1>2. c.req = req /\ c.pc = "done" /\ c.posted = posted
    BY DEF NoCall
<1>3. /\ revoked' = revoked /\ proxied' = proxied /\ get' = get /\ req.via = "service"
      /\ CallsSound /\ DOMAIN call = Procs
    BY DEF BeginService, UNCHANGED_Cache, cacheVars, Sound, CallsSound
<1>4. call' = [call EXCEPT ![p] = c] /\ call'[p] = c
    BY <1>1, <1>3
<1> HIDE DEF c
<1>5. Due(p)'
    BY <1>1, <1>2, <1>3, <1>4 DEF Due
<1> QED BY <1>3, <1>4, <1>5, OneIsDue

(* A certificate that was fetched for the report, and is not somebody      *)
(* else's answer, verifies it.                                             *)
LEMMA VcekDue ==
    ASSUME Sound, Dues, NEW p \in Procs, TakeVcek(p)
    PROVE  Dues'
<1> DEFINE c == call[p]
           b == get[p].body
           quote == c.env.quote
<1>1. /\ CallsSound /\ DOMAIN call = Procs /\ DOMAIN c = Fields /\ c.pc = "vcek"
      /\ SnpRouted(c) /\ c.req \in Requests[scenario][p] /\ DOMAIN get = Procs
      /\ CallAnswers(p) /\ get[p].pc = "return"
    BY DEF Sound, CallsSound, CallSound, Established, TakeVcek, IInv, CacheTypeOK, CallsAnswer
<1>2. /\ c.req.via = "offline" /\ c.failed = FALSE /\ get[p].url \in vcekURL(quote)
      /\ c.env.vcek = None /\ quote.signer = "vcek"
    BY <1>1 DEF Dues, Due
<1>3. /\ revoked' = revoked /\ proxied' = proxied
      /\ \A q \in Procs : q # p => get'[q] = get[q]
    BY <1>1 DEF TakeVcek, Return
<1>4. CASE b = None
    <2> DEFINE d == [c EXCEPT !.pc = "done", !.res = "unavailable", !.failed = get[p].failed]
    <2>1. call' = [call EXCEPT ![p] = d] /\ call'[p] = d
        BY <1>1, <1>4 DEF TakeVcek
    <2>2. d.pc = "done" /\ d.req = c.req /\ d.failed = get[p].failed
        BY <1>1 DEF Fields
    <2>3. get[p].failed
        BY <1>1, <1>4 DEF CallAnswers
    <2> HIDE DEF d, c
    <2>4. Excused(call[p])'
        BY <2>1, <2>2, <2>3 DEF Excused
    <2>5. Due(p)'
        BY <1>2, <2>1, <2>2, <2>4 DEF Due
    <2> QED BY <1>1, <1>3, <2>1, <2>5, OneIsDue
<1>5. CASE b # None
    <2> DEFINE d == [c EXCEPT !.pc = "verify", !.vcek = Parsed(b)]
    <2>1. call' = [call EXCEPT ![p] = d] /\ call'[p] = d
        BY <1>1, <1>5 DEF TakeVcek
    <2>2. /\ d.pc = "verify" /\ d.req = c.req /\ d.env = c.env /\ d.vcek = Parsed(b)
          /\ d.failed = c.failed
        BY <1>1 DEF Fields
    <2>3. ASSUME Deserves(c.req), ~proxied
          PROVE  HardwareVerifies(quote, Parsed(b)) /\ Parsed(b).chip = PeerChip(c.req.cert.made)
        <3>1. b.size = "whole" /\ b.url = get[p].url /\ get[p].url \in URLs
            BY <1>1, <1>5, <2>3 DEF CallAnswers, Answers
        <3>2. Parsed(b) = Served(get[p].url) /\ Parsed(b) # None
            BY <3>1, NoneIsNothing, NoneIsNoCertificate DEF Parsed
        <3>3. Endorses(Parsed(b), quote) /\ Parsed(b).chip = quote.chip
            BY <1>2, <3>2, ServedEndorses
        <3>4. MadeFits(c.req) /\ EvidenceFits(c.req) /\ ParamsFit(c.req)
            BY <1>1, NewRequestFits
        <3>5. quote = c.req.cert.made.quote /\ quote.kind = "report"
              /\ c.req.cert.made.vcek = None
            BY <1>1, <1>2, <2>3, <3>4, DeservingStart DEF SnpRouted, Routed
        <3>6. /\ quote.signed /\ quote.cpu \in {"Milan", "Genoa", "Zen4c"}
            BY <2>3, <3>5 DEF Deserves
        <3>7. HardwareVerifies(quote, Parsed(b))
            BY <1>2, <3>2, <3>3, <3>6, EndorsedVerifies
        <3> QED BY <3>3, <3>5, <3>7 DEF PeerChip
    <2> HIDE DEF d, c
    <2>4. Excused(call[p])' \/ InHand(call[p])'
        BY <1>3, <2>1, <2>2, <2>3 DEF Excused, InHand
    <2>5. Due(p)'
        BY <1>2, <2>1, <2>2, <2>4 DEF Due
    <2> QED BY <1>1, <1>3, <2>1, <2>5, OneIsDue
<1> QED BY <1>4, <1>5

(* With the certificate in hand, hardware verification does not refuse. *)
LEMMA VerifyDue ==
    ASSUME Sound, Dues, NEW p \in Procs, Verify(p)
    PROVE  Dues'
<1> DEFINE c == call[p]
<1>1. /\ CallsSound /\ DOMAIN call = Procs /\ DOMAIN c = Fields /\ c.pc = "verify"
      /\ DOMAIN get = Procs
    BY DEF Sound, CallsSound, CallSound, Verify, IInv, CacheTypeOK
<1>2. c.req.via = "offline" /\ c.failed = FALSE /\ (Excused(c) \/ InHand(c))
    BY <1>1 DEF Dues, Due
<1>3. CASE ~HardwareVerifies(Report(p), c.vcek) /\ Finish(p, "refused") /\ UNCHANGED_Cache
    <2> DEFINE d == [c EXCEPT !.pc = "done", !.res = "refused"]
    <2>1. /\ call' = [call EXCEPT ![p] = d] /\ call'[p] = d
          /\ revoked' = revoked /\ proxied' = proxied /\ get' = get
        BY <1>1, <1>3 DEF Finish, UNCHANGED_Cache, cacheVars
    <2>2. d.pc = "done" /\ d.req = c.req /\ d.failed = c.failed
        BY <1>1 DEF Fields
    <2>3. Excused(c)
        BY <1>2, <1>3 DEF InHand, Report
    <2> HIDE DEF d, c
    <2>4. Excused(call[p])'
        BY <2>1, <2>2, <2>3 DEF Excused, PeerRevoked
    <2>5. Due(p)'
        BY <1>2, <2>1, <2>2, <2>4 DEF Due
    <2> QED BY <1>1, <2>1, <2>5, OneIsDue
<1>4. ASSUME NEW s \in {"validate", "crl"}, call' = [call EXCEPT ![p].pc = s],
             revoked' = revoked, proxied' = proxied,
             \A q \in Procs : q # p => get'[q] = get[q]
      PROVE  Dues'
    <2> DEFINE d == [c EXCEPT !.pc = s]
    <2>1. call' = [call EXCEPT ![p] = d] /\ call'[p] = d
        BY <1>1, <1>4
    <2>2. /\ d.pc = s /\ d.req = c.req /\ d.failed = c.failed /\ d.env = c.env
          /\ d.vcek = c.vcek
        BY <1>1 DEF Fields
    <2> HIDE DEF d, c
    <2>3. Excused(call[p])' \/ InHand(call[p])'
        BY <1>2, <1>4, <2>1, <2>2 DEF Excused, PeerRevoked, InHand
    <2>4. Due(p)'
        BY <1>2, <1>4, <2>1, <2>2, <2>3 DEF Due
    <2> QED BY <1>1, <1>4, <2>1, <2>4, OneIsDue
<1>5. CASE call' = [call EXCEPT ![p].pc = "validate"] /\ UNCHANGED_Cache
    BY <1>4, <1>5 DEF UNCHANGED_Cache, cacheVars
<1>6. CASE /\ call' = [call EXCEPT ![p].pc = "crl"]
           /\ GetContext(p, crlURL(call[p].vcek.line), Getter(p) = "caching")
           /\ UNCHANGED <<revoked, proxied, dir>>
    BY <1>1, <1>4, <1>6 DEF GetContext
<1> QED BY <1>3, <1>5, <1>6 DEF Verify

(* Nor does a revocation list, unless it names the chip or is not AMD's. *)
LEMMA CrlDue ==
    ASSUME Sound, Dues, NEW p \in Procs, TakeCrl(p)
    PROVE  Dues'
<1> DEFINE c == call[p]
           b == get[p].body
           bad == b = None \/ (b # None /\ b.url = None) \/ (b # None /\ c.vcek.chip \in b.revoked)
<1>1. /\ CallsSound /\ DOMAIN call = Procs /\ DOMAIN c = Fields /\ c.pc = "crl"
      /\ SnpRouted(c) /\ c.req \in Requests[scenario][p] /\ DOMAIN get = Procs
      /\ CallAnswers(p) /\ get[p].pc = "return"
    BY DEF Sound, CallsSound, CallSound, Established, TakeCrl, IInv, CacheTypeOK, CallsAnswer
<1>2. c.req.via = "offline" /\ c.failed = FALSE /\ (Excused(c) \/ InHand(c))
    BY <1>1 DEF Dues, Due
<1>3. /\ revoked' = revoked /\ proxied' = proxied
      /\ \A q \in Procs : q # p => get'[q] = get[q]
    BY <1>1 DEF TakeCrl, Return
<1>4. CASE bad
    <2> DEFINE d == [c EXCEPT !.pc = "done", !.res = "refused", !.failed = get[p].failed]
    <2>1. call' = [call EXCEPT ![p] = d] /\ call'[p] = d
        BY <1>1, <1>4 DEF TakeCrl
    <2>2. d.pc = "done" /\ d.req = c.req /\ d.failed = get[p].failed
        BY <1>1 DEF Fields
    <2>3. \/ get[p].failed \/ proxied \/ ~Deserves(c.req) \/ PeerRevoked(c.req)
        <3>1. CASE b = None
            BY <1>1, <3>1 DEF CallAnswers
        <3>2. CASE b # None /\ b.url = None
            BY <1>1, <3>2, NoneIsNothing DEF CallAnswers, Answers
        <3>3. CASE b # None /\ c.vcek.chip \in b.revoked
            <4>1. c.vcek.chip \in revoked
                BY <1>1, <3>3 DEF CallAnswers, Answers
            <4>2. CASE InHand(c) /\ Deserves(c.req)
                <5>1. MadeFits(c.req) /\ EvidenceFits(c.req) /\ ParamsFit(c.req)
                    BY <1>1, NewRequestFits
                <5>2. c.req.cert.made.quote.kind = "report"
                    BY <1>1, <4>2, <5>1, DeservingStart DEF SnpRouted, Routed
                <5>3. c.req.opts.CheckRevocations
                    BY <1>1 DEF Sound, CallsSound, CallSound, Established
                <5> QED BY <4>1, <4>2, <5>2, <5>3 DEF InHand, PeerRevoked
            <4> QED BY <1>2, <4>2 DEF Excused
        <3> QED BY <1>4, <3>1, <3>2, <3>3
    <2> HIDE DEF d, c
    <2>4. Excused(call[p])'
        BY <1>3, <2>1, <2>2, <2>3 DEF Excused, PeerRevoked
    <2>5. Due(p)'
        BY <1>2, <2>1, <2>2, <2>4 DEF Due
    <2> QED BY <1>1, <1>3, <2>1, <2>5, OneIsDue
<1>5. CASE ~bad
    <2> DEFINE d == [c EXCEPT !.pc = "validate"]
    <2>1. call' = [call EXCEPT ![p] = d] /\ call'[p] = d
        BY <1>1, <1>5 DEF TakeCrl
    <2>2. /\ d.pc = "validate" /\ d.req = c.req /\ d.failed = c.failed /\ d.env = c.env
          /\ d.vcek = c.vcek
        BY <1>1 DEF Fields
    <2> HIDE DEF d, c
    <2>3. Excused(call[p])' \/ InHand(call[p])'
        BY <1>2, <1>3, <2>1, <2>2 DEF Excused, PeerRevoked, InHand
    <2>4. Due(p)'
        BY <1>2, <2>1, <2>2, <2>3 DEF Due
    <2> QED BY <1>1, <1>3, <2>1, <2>4, OneIsDue
<1> QED BY <1>4, <1>5

(* Nor does the policy, which the binding leaves as it was. *)
LEMMA ValidateDue ==
    ASSUME Sound, Dues, NEW p \in Procs, Validate(p)
    PROVE  Dues'
<1> DEFINE c == call[p]
           ok == PolicyHolds(c.env.quote, c.params) /\ c.params.ExpectedReportData # None
           d == [c EXCEPT !.pc = "done", !.res = IF ok THEN "accepted" ELSE "refused"]
<1>1. /\ CallsSound /\ DOMAIN call = Procs /\ DOMAIN c = Fields /\ c.pc = "validate"
      /\ SnpRouted(c) /\ c.req \in Requests[scenario][p]
    BY DEF Sound, CallsSound, CallSound, Established, Validate
<1>2. c.req.via = "offline"
    BY <1>1 DEF Dues, Due
<1>3. /\ call' = [call EXCEPT ![p] = d] /\ call'[p] = d
      /\ revoked' = revoked /\ proxied' = proxied /\ get' = get
    BY <1>1 DEF Validate, Finish, Report, UNCHANGED_Cache, cacheVars
<1>4. Deserves(c.req) => ok
    <2> SUFFICES ASSUME Deserves(c.req) PROVE ok
        OBVIOUS
    <2>1. MadeFits(c.req) /\ EvidenceFits(c.req) /\ ParamsFit(c.req)
        BY <1>1, NewRequestFits
    <2>2. PolicyHolds(c.env.quote, c.params)
        BY <1>1, <2>1, DeservingStart DEF SnpRouted, Routed
    <2>3. c.params = [c.req.params EXCEPT !.ExpectedReportData =
                         ReportDataForKey(c.req.cert.key, c.req.nonce)]
        BY <1>1, <2>1, PreparedIs DEF SnpRouted, Routed
    <2>4. c.params.ExpectedReportData # None
        BY <2>1, <2>3 DEF ParamsFit
    <2> QED BY <2>2, <2>4
<1> HIDE DEF ok
<1>5. /\ d.pc = "done" /\ d.req = c.req /\ (ok => d.res = "accepted")
    BY <1>1 DEF Fields
<1> HIDE DEF d, c
<1>6. Excused(call[p])' \/ d.res = "accepted"
    BY <1>3, <1>4, <1>5 DEF Excused
<1>7. Due(p)'
    BY <1>2, <1>3, <1>5, <1>6 DEF Due
<1> QED BY <1>1, <1>3, <1>7, OneIsDue

(* A call that ends, or dies, is owed nothing. *)
LEMMA EndDue ==
    ASSUME Sound, Dues, NEW p \in Procs, call' = [call EXCEPT ![p] = NoCall],
           revoked' = revoked, proxied' = proxied,
           \A q \in Procs : q # p => get'[q] = get[q]
    PROVE  Dues'
<1>1. call'[p] = NoCall /\ CallsSound
    BY DEF Sound, CallsSound
<1>2. Due(p)'
    BY <1>1, StartShape DEF Due
<1> QED BY <1>1, <1>2, OneIsDue

(* The verifications stand still, while a call of the getter moves or a    *)
(* chip is revoked.                                                        *)
LEMMA StillDue ==
    ASSUME Dues, call' = call, revoked \subseteq revoked', proxied => proxied',
           \A q \in Procs : get'[q].url = get[q].url
    PROVE  Dues'
<1>1. ASSUME NEW q \in Procs PROVE Due(q)'
    <2>1. Due(q) /\ call'[q] = call[q] /\ get'[q].url = get[q].url
        BY DEF Dues
    <2>2. Excused(call[q]) => Excused(call[q])'
        BY <2>1 DEF Excused, PeerRevoked
    <2>3. InHand(call[q]) => InHand(call[q])'
        BY <2>1 DEF InHand
    <2> QED BY <2>1, <2>2, <2>3 DEF Due
<1> QED BY <1>1 DEF Dues

(* A call of the getter may find that something answers in AMD's place,    *)
(* and then that is so for good.                                           *)
LEMMA ProxiedStays ==
    ASSUME NEW p \in Procs, GetStep(p)
    PROVE  proxied => proxied'
<1> QED BY DEF GetStep, ReadFile, Fetch, FetchProxied, FetchFails, CreateTemp, WriteStarts,
               WriteEnds, Rename, PublishFails

(* Every step keeps what is due to an honest peer. *)
LEMMA StepDue == Sound /\ Dues /\ [Next]_vars => Dues'
<1> SUFFICES ASSUME Sound, Dues, [Next]_vars PROVE Dues'
    OBVIOUS
<1>0. IInv /\ DOMAIN get = Procs
    BY DEF Sound, IInv, CacheTypeOK
<1>1. CASE UNCHANGED vars
    BY <1>1, StillDue DEF vars, cacheVars
<1>2. ASSUME NEW p \in Procs, NEW req \in Requests[scenario][p],
             Begin(p, req) \/ BeginService(p, req)
      PROVE  Dues'
    BY <1>2, BeginDue, ServiceDue
<1>3. ASSUME NEW p \in Procs, TakeVcek(p) \/ Verify(p) \/ TakeCrl(p) \/ Validate(p)
      PROVE  Dues'
    BY <1>3, VcekDue, VerifyDue, CrlDue, ValidateDue
<1>4. ASSUME NEW p \in Procs, End(p) PROVE Dues'
    BY <1>4, EndDue DEF End, UNCHANGED_Cache, cacheVars
<1>5. ASSUME NEW p \in Procs, Getting(p) PROVE Dues'
    <2>1. /\ get'[p].url = get[p].url /\ \A q \in Procs : q # p => get'[q] = get[q]
          /\ revoked' = revoked /\ call' = call
        BY <1>0, <1>5, GetterKeepsCall DEF Getting
    <2>2. proxied => proxied'
        BY <1>5, ProxiedStays DEF Getting
    <2> QED BY <2>1, <2>2, StillDue
<1>6. ASSUME NEW p \in Procs, CrashCall(p) PROVE Dues'
    <2>1. /\ call' = [call EXCEPT ![p] = NoCall] /\ revoked' = revoked /\ proxied' = proxied
          /\ \A q \in Procs : q # p => get'[q] = get[q]
        BY <1>0, <1>6 DEF CrashCall, Crash
    <2> QED BY <2>1, EndDue
<1>7. CASE PowerLossCalls
    <2>1. call' = [p \in Procs |-> NoCall]
        BY <1>7 DEF PowerLossCalls
    <2>2. ASSUME NEW p \in Procs PROVE Due(p)'
        BY <2>1, StartShape DEF Due
    <2> QED BY <2>2 DEF Dues
<1>8. CASE RevokeChip
    BY <1>8, StillDue DEF RevokeChip, Revoke
<1> QED BY <1>1, <1>2, <1>3, <1>4, <1>5, <1>6, <1>7, <1>8 DEF Next

(* Every verification gives a guest's own certificate what is due to it. *)
THEOREM AlwaysDue == Spec => []Dues
<1>1. Init => Dues
    BY StartShape DEF Init, Dues, Due
<1> QED BY <1>1, StepDue, AlwaysSound, PTL DEF Spec

(* A certificate the guest made with this package is accepted, whatever    *)
(* the cache went through, unless the service that has its collateral does *)
(* not answer.                                                             *)
THEOREM HonestPeersAreAccepted == Spec => []HonestIsAccepted
<1>1. Dues => HonestIsAccepted
    BY DEF Dues, Due, Excused, HonestIsAccepted
<1> QED BY <1>1, AlwaysDue, PTL

(* The list a measuring guest embeds is the one the relying party's client *)
(* is given to replay, with its evidence and the binding to its key.       *)
THEOREM ListsAreDelivered == Spec => []ListIsDelivered
<1>1. Sound /\ Dues => ListIsDelivered
    <2> SUFFICES ASSUME Sound, Dues, NEW p \in Procs,
                        call[p].pc = "done", call[p].req.via = "service",
                        call[p].req.cert.made # None, call[p].req.cert.key # "rsa",
                        call[p].req.params.ExpectedReportData = None
                 PROVE  LET req == call[p].req
                            posted == call[p].posted
                        IN  /\ posted # None
                            /\ posted.claimed = IF Family(posted.env.Platform) = "tdx"
                                                THEN req.cert.measured ELSE << >>
                            /\ posted.env.quote = req.cert.made.quote
                            /\ posted.anchor = ReportDataForKey(req.cert.key, req.nonce)
        BY DEF ListIsDelivered
    <2> DEFINE req == call[p].req
    <2>1. req \in Requests[scenario][p]
        BY DEF Sound, CallsSound, CallSound
    <2>2. ParamsFit(req) /\ EvidenceFits(req) /\ MadeFits(req)
        BY <2>1, NewRequestFits DEF Sound
    <2>3. Prepared(req) # {}
        BY <2>2, MadeCanBePrepared
    <2>4. PICK r \in Prepared(req) : call[p].posted = Posted(r)
        BY <2>3 DEF Dues, Due
    <2>5. Posted(r) # None
        BY <2>2 DEF ParamsFit
    <2>6. /\ r.env.quote = req.cert.made.quote
          /\ Posted(r).claimed = IF Family(r.env.Platform) = "tdx"
                                 THEN req.cert.measured ELSE << >>
        BY <2>2, MadeIsPrepared
    <2>7. r.params.ExpectedReportData = ReportDataForKey(req.cert.key, req.nonce)
        <3>1. r.params = [req.params EXCEPT !.ExpectedReportData =
                             ReportDataForKey(req.cert.key, req.nonce)]
            BY <2>2, PreparedIs
        <3> QED BY <2>2, <3>1 DEF ParamsFit
    <2>8. Posted(r).env = r.env /\ Posted(r).anchor = r.params.ExpectedReportData
        BY DEF Posted
    <2> QED BY <2>4, <2>5, <2>6, <2>7, <2>8
<1> QED BY <1>1, AlwaysSound, AlwaysDue, PTL

=============================================================================
