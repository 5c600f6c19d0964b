------------------------------- MODULE Audit -------------------------------
(***************************************************************************)
(* The audit of the admin (ZkTeamClientAdmin.tagLogs, checkIntegrity and   *)
(* getTransactions) and the listings of admin and users. The admin walks   *)
(* through its users, counts their indices one await at a time and         *)
(* recomputes every commitment from the key of the user and the encrypted  *)
(* allowance; the account goes on executing between two awaits. Users may  *)
(* encrypt another allowance than they commit to, or commit to a key of    *)
(* their own, as in test/AnomalyDetection.spec.ts; what they pass as       *)
(* encrypted allowance may also be anything else of 32 bytes.              *)
(***************************************************************************)
EXTENDS Integers, Sequences, SequencesExt, FiniteSets

CONSTANTS
  LastUser,         \* the users the admin may grant to are 0 .. LastUser
  Stranger,         \* a key that is not derived from the key of the admin
  MaxAmount,        \* bound on the allowances
  HashZero,         \* the encrypted allowance of 32 zero bytes
  Junk,             \* any other one that does not authenticate under its key
  MaxEvents         \* bound on the executions of a run

ASSUME AuditSizes ==
  /\ LastUser \in Nat /\ Stranger \notin 0 .. LastUser + 1 /\ MaxAmount \in Nat /\ MaxEvents \in Nat
  /\ HashZero \notin Nat /\ Junk \notin Nat /\ HashZero # Junk

User == 0 .. LastUser
Key == User \cup {Stranger}
Note == [user : Key, index : Nat, amount : Nat]

\* An encrypted allowance is named by the amount it decrypts to.
Ciphertext == 0 .. MaxAmount \cup {HashZero, Junk}

VARIABLES
  executions,       \* the ZkTeamExecution events of the account
  discards,         \* the commitment hashes of the ZkTeamDiscard events
  cache,            \* data of the admin's client: logs, how many discards it read
  audit,            \* where tagLogs is
  startedAt,        \* history: how many executions there were when it started
  done,             \* the last audit has returned
  report            \* what checkIntegrity returned

accountVars == <<executions, discards>>
adminVars == <<cache, audit, startedAt, done, report>>
auditVars == <<accountVars, adminVars>>

NotAuditing == [at |-> "idle"]

-----------------------------------------------------------------------------
(* The account                                                             *)

EventsOf(n, es) == {p \in DOMAIN es : es[p].nullifierHash = n}

\* The last event under a nullifier overwrites the others, in nullifierHashes of
\* the account as in data.nullifierHashes.
IsCurrent(p, es) == \A q \in DOMAIN es : q > p => es[q].nullifierHash # es[p].nullifierHash

\* Under nullifier n there is something, and that is not HashZero.
IsUsed(n, es) ==
  \E p \in EventsOf(n, es) : IsCurrent(p, es) /\ es[p].encryptedAllowance # HashZero

\* What getLastIndex counts when nothing happens meanwhile.
LastIndex(u, es) ==
  CHOOSE i \in 0 .. Len(es) :
    ~ IsUsed(<<u, i>>, es) /\ \A j \in 0 .. i - 1 : IsUsed(<<u, j>>, es)

TimesIn(c, s) == Cardinality({p \in DOMAIN s : s[p] = c})

Inserted == [p \in DOMAIN executions |-> executions[p].commitmentHash]

Live(c) == TimesIn(c, discards) < TimesIn(c, Inserted)

Emit(n, c, allowance) ==
  /\ Len(executions) < MaxEvents
  /\ executions' = Append(executions, [nullifierHash |-> n, commitmentHash |-> c,
                                       encryptedAllowance |-> allowance])
  /\ UNCHANGED <<discards, adminVars>>

\* The admin grants; the user may have left index i since it was counted.
Grant(u, i, amount) ==
  /\ i <= LastIndex(u, executions)
  /\ Emit(<<u, i>>, [user |-> u, index |-> i + 1, amount |-> amount], amount)

\* The owner of note n spends some of it: what is left goes to a note of key,
\* and allowance is what it says is left.
Spend(n, key, left, allowance) ==
  /\ Live(n) /\ ~ IsUsed(<<n.user, n.index>>, executions)
  /\ key \in {n.user, Stranger} /\ left <= n.amount
  /\ Emit(<<n.user, n.index>>, [user |-> key, index |-> n.index + 1, amount |-> left],
          allowance)

-----------------------------------------------------------------------------
(* tagLogs. Every await brings the cache up to date.                       *)

IsLastOf(p, ls) ==
  \A q \in DOMAIN ls : q > p => ls[q].commitmentHash # ls[p].commitmentHash

\* getData: the new executions, then the new discards.
Fresh ==
  LET new(e) == [nullifierHash |-> e.nullifierHash, commitmentHash |-> e.commitmentHash,
                 encryptedAllowance |-> e.encryptedAllowance,
                 discarded |-> FALSE, userIndex |-> FALSE, valid |-> "unset"]
      all == [p \in DOMAIN executions |->
                IF p \in DOMAIN cache.logs THEN cache.logs[p] ELSE new(executions[p])]
      gone == ToSet(SubSeq(discards, cache.discards + 1, Len(discards)))
  IN [discards |-> Len(discards),
      logs |-> [p \in DOMAIN all |->
                  IF all[p].commitmentHash \in gone /\ IsLastOf(p, all)
                  THEN [all[p] EXCEPT !.discarded = TRUE] ELSE all[p]]]

\* Mutant of Recomputed: the triplet of the index before is taken.
RecomputedBefore(e) ==
  [user |-> e.nullifierHash[1], index |-> e.nullifierHash[2], amount |-> e.encryptedAllowance]

\* The commitment that belongs to the nullifier and the encrypted allowance.
Recomputed(e) ==
  [user |-> e.nullifierHash[1], index |-> e.nullifierHash[2] + 1,
   amount |-> e.encryptedAllowance]

\* Mutant of Indices: the loop stops one too early.
IndicesButLast(index) == 1 .. index - 1

Indices(index) == 1 .. index

\* The logs the loop over the indices of a user comes to.
Walked(ls, u, index) ==
  {p \in DOMAIN ls :
     IsCurrent(p, ls) /\ \E i \in Indices(index) : ls[p].nullifierHash = <<u, i - 1>>}

\* decryptAllowance returns; it throws on any text that does not authenticate.
Decrypts(log) == log.encryptedAllowance \notin {HashZero, Junk}

\* The loop throws at this log, which has its first tag by then.
Throws(log) == log.valid = "unset" /\ ~ Decrypts(log)

Tag(log) ==
  [log EXCEPT !.userIndex = TRUE,
              !.valid = IF @ # "unset" \/ ~ Decrypts(log) THEN @
                        ELSE IF Recomputed(log) = log.commitmentHash THEN "yes" ELSE "no"]

\* One index after the other, up to the first one that throws.
Tagged(ls, u, index) ==
  LET walked == Walked(ls, u, index)
  IN [p \in DOMAIN ls |->
        IF /\ p \in walked
           /\ \A q \in walked : Throws(ls[q]) => ls[p].nullifierHash[2] <= ls[q].nullifierHash[2]
        THEN Tag(ls[p]) ELSE ls[p]]

\* Mutant of Suspicious: a log that was never checked is passed over.
FoundInvalid(log) == log.valid = "no" /\ ~ log.discarded

Suspicious(log) == log.valid # "yes" /\ ~ log.discarded

\* The keys of data.nullifierHashes, each at the log that wrote it first: a key
\* that is written again keeps its place.
FirstWrites(ls) ==
  {p \in DOMAIN ls : \A q \in 1 .. p - 1 : ls[q].nullifierHash # ls[p].nullifierHash}

\* The log under the key that log p has written.
LogOfKey(p, ls) ==
  ls[CHOOSE q \in EventsOf(ls[p].nullifierHash, ls) : IsCurrent(q, ls)]

\* The numbers of P from the greatest to the least; as a mutant of KeyOrder, the
\* newest key comes first.
NewestFirst(P) ==
  [k \in 1 .. Cardinality(P) |-> CHOOSE p \in P : Cardinality({q \in P : q > p}) = k - 1]

\* Object.values: the keys in the order in which they were written first.
KeyOrder(P) ==
  [k \in 1 .. Cardinality(P) |-> CHOOSE p \in P : Cardinality({q \in P : q < p}) = k - 1]

\* checkIntegrity: the suspicious ones among the last logs of the nullifiers.
Report(ls) ==
  LET found == KeyOrder({p \in FirstWrites(ls) : Suspicious(LogOfKey(p, ls))})
  IN [k \in DOMAIN found |-> LogOfKey(found[k], ls).commitmentHash]

CountOf(at, u) == [at |-> at, user |-> u, index |-> 0]

StartAudit ==
  /\ audit.at = "idle"
  /\ cache' = Fresh
  /\ audit' = CountOf("getAllowance", 0)
  /\ startedAt' = Len(executions)
  /\ done' = FALSE /\ report' = <<>>
  /\ UNCHANGED accountVars

\* getLastIndex, one await per index: called by getAllowance, then by tagLogs.
CountIndex ==
  /\ audit.at \in {"getAllowance", "tagLogs"}
  /\ cache' = Fresh
  /\ IsUsed(<<audit.user, audit.index>>, cache'.logs)
  /\ audit' = [audit EXCEPT !.index = @ + 1]
  /\ UNCHANGED <<accountVars, startedAt, done, report>>

\* getAllowance returns null: no more users, the audit is over.
PassLastUser ==
  /\ audit.at = "getAllowance" /\ audit.index = 0
  /\ cache' = Fresh
  /\ ~ IsUsed(<<audit.user, 0>>, cache'.logs)
  /\ audit' = NotAuditing /\ done' = TRUE /\ report' = Report(cache'.logs)
  /\ UNCHANGED <<accountVars, startedAt>>

EndCount ==
  /\ audit.at = "getAllowance" /\ audit.index > 0
  /\ cache' = Fresh
  /\ ~ IsUsed(<<audit.user, audit.index>>, cache'.logs)
  /\ audit' = [audit EXCEPT !.at = "decrypt"]
  /\ UNCHANGED <<accountVars, startedAt, done, report>>

\* getAllowance decrypts the last allowance, only to compare it with null.
ReadAllowance ==
  /\ audit.at = "decrypt"
  /\ cache' = Fresh
  /\ audit' = IF \E p \in EventsOf(<<audit.user, audit.index - 1>>, cache'.logs) :
                    IsCurrent(p, cache'.logs) /\ Decrypts(cache'.logs[p])
               THEN CountOf("tagLogs", audit.user) ELSE NotAuditing
  /\ UNCHANGED <<accountVars, startedAt, done, report>>

\* Mutant of NextUser: the index of the user is not incremented.
SameUser(u) == u

NextUser(u) == u + 1

\* The second count is over: the logs of the user are tagged without an await.
TagUser ==
  /\ audit.at = "tagLogs"
  /\ ~ IsUsed(<<audit.user, audit.index>>, Fresh.logs)
  /\ cache' = [Fresh EXCEPT !.logs = Tagged(@, audit.user, audit.index)]
  /\ audit' = IF \E p \in Walked(Fresh.logs, audit.user, audit.index) : Throws(Fresh.logs[p])
               THEN NotAuditing
               ELSE CountOf("getAllowance",
                            IF audit.index = 0 THEN audit.user ELSE NextUser(audit.user))
  /\ UNCHANGED <<accountVars, startedAt, done, report>>

\* A read fails and the call throws; the tags stay on the logs.
AuditFails ==
  /\ audit.at # "idle"
  /\ audit' = NotAuditing
  /\ UNCHANGED <<accountVars, cache, startedAt, done, report>>

\* The admin discards what the audit reported, in its order.
DiscardReported ==
  /\ audit.at = "idle" /\ done /\ report # <<>>
  /\ \A c \in ToSet(report) : TimesIn(c, report) + TimesIn(c, discards) <= TimesIn(c, Inserted)
  /\ cache' = Fresh
  /\ discards' = discards \o report
  /\ done' = FALSE /\ report' = <<>>
  /\ UNCHANGED <<executions, audit, startedAt>>

-----------------------------------------------------------------------------
(* Listings                                                                *)

\* Mutant of PageEnd: the end is taken for the last element of the page.
PageEndInclusive(text, page, limit) == (page + 1) * limit - 1

\* (page + 1) * limit. The options --page and --limit reach it as text: + puts the
\* digit 1 behind those of page, and * reads the result as a number again.
PageEnd(text, page, limit) == (IF text THEN 10 * page + 1 ELSE page + 1) * limit

\* getTransactions of the admin: a page of the tagged logs, newest first.
AdminPage(ls, text, page, limit) ==
  LET tagged == {p \in DOMAIN ls : ls[p].userIndex}
      end == PageEnd(text, page, limit)
      last == IF end < Cardinality(tagged) THEN end ELSE Cardinality(tagged)
  IN [k \in 1 .. last - page * limit |-> ls[NewestFirst(tagged)[page * limit + k]]]

\* Mutant of Allowance: the note before the last one is decrypted.
AllowanceBefore(u, ls) ==
  LET i == LastIndex(u, ls)
      old == {p \in DOMAIN ls : IsCurrent(p, ls) /\ ls[p].nullifierHash = <<u, IF i > 1 THEN i - 2 ELSE 0>>}
  IN {ls[p].encryptedAllowance : p \in old}

\* getAllowance, decrypted from the last log of user u: none or one.
Allowance(u, ls) ==
  {ls[p].encryptedAllowance : p \in {q \in DOMAIN ls :
     IsCurrent(q, ls) /\ ls[q].nullifierHash = <<u, LastIndex(u, ls) - 1>>}}

\* getUsers: the users of a page, and 0 for those who have no allowance.
UsersPage(ls, page, limit) ==
  [k \in 1 .. limit |-> LET u == page * limit + k - 1
     IN [index |-> u, exists |-> Allowance(u, ls) # {},
         allowance |-> CHOOSE a \in Allowance(u, ls) \cup {0} : Allowance(u, ls) \in {{}, {a}}]]

\* getTransactions of a user: the indices of its nullifiers, newest first.
UserPage(u, ls, page, limit) ==
  LET next == LastIndex(u, ls) - page * limit
  IN [k \in 1 .. (IF next < 0 THEN 0 ELSE IF next < limit THEN next ELSE limit) |-> next - k]

-----------------------------------------------------------------------------
AuditInit ==
  /\ executions = <<>> /\ discards = <<>>
  /\ cache = [discards |-> 0, logs |-> <<>>]
  /\ audit = NotAuditing /\ startedAt = 0 /\ done = FALSE /\ report = <<>>

AccountStep ==
  \/ \E u \in User, i \in 0 .. MaxEvents, amount \in 1 .. MaxAmount : Grant(u, i, amount)
  \/ \E n \in ToSet(Inserted), key \in Key, left \in 0 .. MaxAmount, allowance \in Ciphertext :
       Spend(n, key, left, allowance)

AuditStep == CountIndex \/ PassLastUser \/ EndCount \/ ReadAllowance \/ TagUser \/ AuditFails

AuditNext == AccountStep \/ StartAudit \/ AuditStep \/ DiscardReported

\* A read of the walk is answered or fails. Nothing is assumed of the account.
AuditSpec == AuditInit /\ [][AuditNext]_auditVars /\ WF_auditVars(AuditStep)

-----------------------------------------------------------------------------
(* Properties                                                              *)

Event == [nullifierHash : Key \X Nat, commitmentHash : Note,
          encryptedAllowance : Nat \cup {HashZero, Junk}]
Log == [nullifierHash : Key \X Nat, commitmentHash : Note,
        encryptedAllowance : Nat \cup {HashZero, Junk},
        discarded : BOOLEAN, userIndex : BOOLEAN, valid : {"unset", "yes", "no"}]

Regular(e) ==
  e.nullifierHash[1] \in User /\ Decrypts(e) /\ e.commitmentHash = Recomputed(e)

\* The tags of a log: valid tells the truth about it.
Truthful(log) ==
  log.valid # "unset" =>
    /\ log.userIndex /\ Decrypts(log)
    /\ (log.valid = "yes") = (log.commitmentHash =
         [user |-> log.nullifierHash[1], index |-> log.nullifierHash[2] + 1,
          amount |-> log.encryptedAllowance])

\* Every variable has its type, and the tags tell the truth about their log however
\* many audits, failed ones among them, the log has gone through.
AuditTypeOK ==
  /\ executions \in Seq(Event) /\ Len(executions) <= MaxEvents /\ discards \in Seq(Note)
  /\ cache \in [discards : 0 .. Len(discards), logs : Seq(Log)]
  /\ Len(cache.logs) <= Len(executions) /\ startedAt \in 0 .. Len(executions)
  /\ audit \in [at : {"idle"}] \cup
       [at : {"getAllowance", "decrypt", "tagLogs"}, user : 0 .. LastUser + 1, index : Nat]
  /\ done \in BOOLEAN /\ report \in Seq(Note) /\ ToSet(report) \subseteq ToSet(Inserted)
  /\ \A p \in DOMAIN cache.logs : Truthful(cache.logs[p])

\* Nothing was under nullifier n after the first executions, before of them.
Unused(n, before) ==
  \A p \in 1 .. before :
    executions[p].nullifierHash = n => executions[p].encryptedAllowance = HashZero

\* The walk does not come to nullifier n: it ends at a user below, or its count
\* ends at an index below.
Hidden(n, before) ==
  \/ \E v \in 0 .. n[1] - 1 : Unused(<<v, 0>>, before)
  \/ \E i \in 0 .. n[2] - 1 : Unused(<<n[1], i>>, before)

\* A regular commitment is reported for three reasons only: it came after the
\* audit started, a user below has no allowance, or an encrypted allowance below it
\* is 32 zero bytes.
FalseAlarmsExplained ==
  done => \A p \in DOMAIN cache.logs : LET log == cache.logs[p]
    IN IsCurrent(p, cache.logs) /\ Regular(log) /\ log.commitmentHash \in ToSet(report)
         => p > startedAt \/ Hidden(log.nullifierHash, startedAt)

\* "The method checkIntegrity returns all commitmentHash that are incorrect"
\* (src/README.md:309), and so no correct one. Violated: see run false_alarm.
OnlyIrregularReported ==
  done => \A p \in DOMAIN cache.logs :
    Regular(cache.logs[p]) => cache.logs[p].commitmentHash \notin ToSet(report)

\* checkIntegrity misses no irregular commitment it has read, unless another
\* execution has overwritten its nullifier: not one of keys the walk never comes
\* to, and not one whose allowance does not decrypt, if it returns at all.
AnomaliesReported ==
  done => \A p \in DOMAIN cache.logs : LET log == cache.logs[p]
    IN IsCurrent(p, cache.logs) /\ ~ Regular(log) /\ ~ log.discarded
         => log.commitmentHash \in ToSet(report)

\* While no nullifier was written twice, the report is in the order of the
\* leaves: discarding it discards oldest first, as MerkleTree needs.
ReportOldestFirst ==
  (\A p \in DOMAIN executions : IsCurrent(p, executions)) =>
    \A j, k \in DOMAIN report : j < k =>
      \E p, q \in DOMAIN executions :
        p < q /\ Inserted[p] = report[j] /\ Inserted[q] = report[k]

\* How often x is on one of the pages, a function from their numbers to sequences.
TimesListed(x, pages) ==
  Cardinality(UNION {{page} \X {k \in DOMAIN pages[page] : pages[page][k] = x}
                       : page \in DOMAIN pages})

ListedOnceOn(limit) ==
  LET ls == cache.logs IN
    /\ \A p \in 1 .. startedAt :
         (/\ IsCurrent(p, ls) /\ ls[p].nullifierHash[1] \in User
          /\ ls[p].encryptedAllowance # HashZero
          /\ ~ Hidden(ls[p].nullifierHash, startedAt)) =>
            TimesListed(ls[p], [page \in 0 .. MaxEvents |-> AdminPage(ls, FALSE, page, limit)])
              = TimesIn(ls[p], ls)
    /\ \A u \in User : \A j \in 0 .. LastIndex(u, ls) - 1 :
         TimesListed(j, [page \in 0 .. MaxEvents |-> UserPage(u, ls, page, limit)]) = 1

\* A caller of getTransactions that passes page and limit as numbers, as their type
\* asks, sees page by page: the admin every current log of a user that the audit
\* came to as often as it was read, a user each of its nullifiers once.
ListedOnce == done => \A limit \in 1 .. 2 : ListedOnceOn(limit)

\* A page has no more than limit transactions (README.md:231: "the 5 most recent
\* transactions (page=0 and limit=5)"), also for a page the options of the command
\* line ask for. Violated: see run text_pages.
OptionPagesHoldLimit ==
  done => \A page \in 0 .. MaxEvents, limit \in 1 .. 2 :
    Len(AdminPage(cache.logs, TRUE, page, limit)) <= limit

\* The allowance getUsers shows next to a user is what the last note of that user
\* holds, unless checkIntegrity reported that note or the admin has discarded it: a
\* discarded note goes on being shown. (A page with an allowance that does not
\* decrypt, for which getUsers throws, is no exception.)
AllowanceHonest ==
  done => \A page \in 0 .. MaxEvents : \A shown \in ToSet(UsersPage(cache.logs, page, 2)) :
    shown.exists => \E p \in DOMAIN cache.logs : LET log == cache.logs[p]
      IN /\ log.nullifierHash = <<shown.index, LastIndex(shown.index, cache.logs) - 1>>
         /\ IsCurrent(p, cache.logs)
         /\ \/ log.discarded \/ log.commitmentHash \in ToSet(report)
            \/ log.commitmentHash = [user |-> shown.index, amount |-> shown.allowance,
                                     index |-> LastIndex(shown.index, cache.logs)]

\* An audit ends once the account stops executing, whatever was executed during its
\* walk and whatever does not decrypt. (Every behaviour here stops at MaxEvents; while
\* new indices or users come faster than the walk, nothing makes it end.)
AuditEnds == audit.at # "idle" ~> audit.at = "idle"
-----------------------------------------------------------------------------
(* The inductive invariant behind the proofs                               *)

\* A note is for the owner of the nullifier or for a stranger, at the index
\* after it; no index of a user comes before the ones below it; and what is under
\* a nullifier is never HashZero again once it was something else.
ExecutionsSound ==
  \A p \in DOMAIN executions : LET e == executions[p]
    IN /\ e.commitmentHash.user \in {e.nullifierHash[1], Stranger}
       /\ e.commitmentHash.index = e.nullifierHash[2] + 1
       /\ e.nullifierHash[1] \in User => \A i \in 0 .. e.nullifierHash[2] - 1 :
            \E q \in 1 .. p - 1 : executions[q].nullifierHash = <<e.nullifierHash[1], i>>
       /\ e.encryptedAllowance = HashZero => \A q \in 1 .. p - 1 :
            executions[q].nullifierHash = e.nullifierHash =>
              executions[q].encryptedAllowance = HashZero

\* The logs are the first of the events, and the walk tags those of users only.
CacheSound ==
  \A p \in DOMAIN cache.logs : LET log == cache.logs[p]
    IN /\ log.nullifierHash = executions[p].nullifierHash
       /\ log.commitmentHash = executions[p].commitmentHash
       /\ log.encryptedAllowance = executions[p].encryptedAllowance
       /\ log.userIndex => log.nullifierHash[1] \in User

\* The walk has tagged what was there when it started, as far as it got.
Tags(u) ==
  \A p \in 1 .. startedAt : LET log == cache.logs[p]
    IN (/\ IsCurrent(p, cache.logs) /\ log.nullifierHash[1] = u
        /\ log.encryptedAllowance # HashZero /\ ~ Hidden(log.nullifierHash, startedAt))
         => log.valid # "unset"

\* Every index it has counted so far is used.
Counted == \A i \in 0 .. audit.index - 1 : IsUsed(<<audit.user, i>>, cache.logs)

WalkSound ==
  /\ audit.at # "idle" => /\ ~ done /\ startedAt <= Len(cache.logs)
                          /\ Counted /\ \A u \in 0 .. audit.user - 1 : Tags(u)
  /\ done => startedAt <= Len(cache.logs) /\ \A u \in User : Tags(u)
  /\ report = IF done THEN Report(cache.logs) ELSE <<>>

\* What is proved to be inductive in AuditProofs.
Inv == AuditTypeOK /\ ExecutionsSound /\ CacheSound /\ WalkSound
=============================================================================
