---------------------------- MODULE TokenBudget ----------------------------
(***************************************************************************)
(* Token limits of service groups.  A job is paid by a group: one is       *)
(* chosen when the job is submitted and asked again when a consumer claims *)
(* the job; what a job used is known only when its consumer reports it.    *)
(***************************************************************************)
EXTENDS FiniteSetsExt, Sequences, Integers

CONSTANTS
  Payers, Groups,     \* users; service groups
  MemberOf,           \* MemberOf[u]: the groups of user u
  PaidServices,       \* PaidServices[s]: the sequence of groups of service s
  Jobs, Consumers,
  NoRow, NoLimits,    \* a group that is not there; one without limits
  NoGroup, NoJob,
  RawLimits,          \* what an admin may send as limits
  FirstLimits,        \* per group: its row to begin with
  Reports,            \* the numbers of tokens an attempt of a job may report
  DaysPerMonth, LastDay, MaxTries, MaxFailures, MaxUpdates   \* bounds

Services == DOMAIN PaidServices
\* Limits of a group; a field that is not set is 0.
Limits == [period : {"day", "month"}, group_total : Nat, per_user : Nat]

ASSUME BudgetConstants ==
  /\ MemberOf \in [Payers -> SUBSET Groups]
  /\ \A s \in Services : PaidServices[s] \in Seq(Groups)
  /\ NoGroup \notin Groups /\ NoRow # NoLimits /\ NoJob \notin Jobs
  /\ FirstLimits \in [Groups -> {NoRow, NoLimits} \cup Limits] /\ {NoRow, NoLimits} \cap Limits = {}
  /\ RawLimits \subseteq [period : STRING, group_total : Int, per_user : Int]
  /\ Reports \subseteq Nat /\ Reports # {} /\ IsFiniteSet(Reports)
  /\ IsFiniteSet(Payers) /\ IsFiniteSet(Consumers)
  /\ {DaysPerMonth, LastDay, MaxTries} \subseteq Nat \ {0}
  /\ {MaxFailures, MaxUpdates} \subseteq Nat

VARIABLES
  group,      \* per group: NoRow, NoLimits or its limits
  usage,      \* rows of Usage, summed up per group, user and day
  today,
  job,        \* per job: where it is, who asked, what it read
  consumer,   \* per consumer: its job and what it does with it
  peak,       \* history: the highest limits read of each group so far
  failures,   \* history: checks that failed and let their job pass
  updates

budgetVars == <<group, usage, today, job, consumer, peak, failures, updates>>

Unlimited == -1
Days == 1 .. LastDay
FreshJob == [at |-> "new", user |-> NoJob, service |-> NoJob, k |-> 0, limits |-> NoLimits,
             ref |-> NoGroup, tries |-> 0, changed |-> FALSE]
FreeConsumer == [job |-> NoJob, at |-> "idle", limits |-> NoLimits]

BudgetInit ==
  /\ group = FirstLimits
  /\ usage = [r \in (Groups \cup {NoGroup}) \X Payers \X Days |-> 0]
  /\ today = 1
  /\ job = [j \in Jobs |-> FreshJob]
  /\ consumer = [c \in Consumers |-> FreeConsumer]
  /\ peak = [g \in Groups |-> [p \in {"day", "month"} |-> [f \in {"group_total", "per_user"} |-> 1]]]
  /\ failures = 0 /\ updates = 0

-----------------------------------------------------------------------------
(* Limits.  What an admin sends may be no number.                          *)

normalizeTokenLimits(raw) ==
  LET given == {f \in {"group_total", "per_user"} : raw[f] # 0} IN
  CASE raw.period \notin {"", "month", "day"} -> NoRow
    [] \E f \in given : raw[f] < 0 -> NoRow
    [] given = {} -> NoLimits
    [] OTHER -> [raw EXCEPT !.period = IF raw.period = "" THEN "month" ELSE raw.period]

periodStart(period) ==
  IF period = "day" THEN today ELSE ((today - 1) \div DaysPerMonth) * DaysPerMonth + 1

Total(tokens, rows) == MapThenSumSet(LAMBDA r : tokens[r], rows)
used(g, u, period) ==
  LET rows == {g} \X Payers \X {d \in Days : d >= periodStart(period)} IN
  [group |-> Total(usage, rows), user |-> Total(usage, {r \in rows : r[2] = u})]

exhaustedReason(limits, use) ==
  /\ limits \notin {NoLimits, NoRow}
  /\ \/ limits.group_total # 0 /\ use.group >= limits.group_total
     \/ limits.per_user # 0 /\ use.user >= limits.per_user

\* History: what a check has read of a group, for days and for months; limits
\* of a day say nothing of a month.
Limit(limits, field, period) ==
  IF limits \in {NoLimits, NoRow} \/ limits[field] = 0
     \/ (period = "month" /\ limits.period = "day")
  THEN Unlimited ELSE limits[field]
Higher(a, b) == IF Unlimited \in {a, b} THEN Unlimited ELSE IF a < b THEN b ELSE a
Seen(g, limits) ==
  [peak EXCEPT ![g] = [p \in {"day", "month"} |->
     [f \in {"group_total", "per_user"} |-> Higher(peak[g][p][f], Limit(limits, f, p))]]]

-----------------------------------------------------------------------------
(* Submitting: the first group of the service that the user is in and that *)
(* has tokens left.                                                        *)

\* The places, among the groups of a service, of those the user is in.
candidatesOf(u, s) == {k \in DOMAIN PaidServices[s] : PaidServices[s][k] \in MemberOf[u]}
candidates(j) == candidatesOf(job[j].user, job[j].service)
Candidate(j) == PaidServices[job[j].service][job[j].k]

choose(j, u, s) ==
  /\ job[j].at = "new"
  /\ LET mine == candidatesOf(u, s)
         to == IF PaidServices[s] = <<>> THEN "queued" ELSE IF mine = {} THEN "forbidden" ELSE "choose" IN
     job' = [job EXCEPT ![j] = [job[j] EXCEPT !.user = u, !.service = s, !.at = to,
               !.k = IF mine = {} THEN 0 ELSE Min(mine)]]
  /\ UNCHANGED <<group, usage, today, consumer, peak, failures, updates>>

\* A group without limits, or without a row, is taken.
chooseGroup(j) ==
  /\ job[j].at = "choose"
  /\ LET g == Candidate(j)
         free == group[g] \in {NoRow, NoLimits} IN
     job' = [job EXCEPT ![j] = [job[j] EXCEPT !.limits = group[g],
       !.at = IF free THEN "queued" ELSE "used", !.ref = IF free THEN g ELSE job[j].ref]]
  /\ UNCHANGED <<group, usage, today, consumer, peak, failures, updates>>

\* Mutant: the first group of the user decides.
OnlyCandidate(j) == [job EXCEPT ![j].at = "tooMany"]

NextCandidate(j) ==
  LET later == {k \in candidates(j) : k > job[j].k} IN
  IF later # {} THEN [job EXCEPT ![j] = [job[j] EXCEPT !.k = Min(later), !.at = "choose"]]
  ELSE [job EXCEPT ![j] = [job[j] EXCEPT !.at = "tooMany"]]

chooseUsed(j) ==
  /\ job[j].at = "used"
  /\ LET g == Candidate(j) IN
     job' = IF exhaustedReason(job[j].limits, used(g, job[j].user, job[j].limits.period))
            THEN NextCandidate(j)
            ELSE [job EXCEPT ![j] = [job[j] EXCEPT !.at = "queued", !.ref = g]]
  /\ UNCHANGED <<group, usage, today, consumer, peak, failures, updates>>

-----------------------------------------------------------------------------
(* A consumer claims a job: the row of its group is read, then the sums.   *)

claim(c, j) ==
  /\ consumer[c].at = "idle" /\ job[j].at = "queued"
  /\ job' = [job EXCEPT ![j] = [job[j] EXCEPT !.at = "running", !.tries = job[j].tries + 1]]
  /\ consumer' = [consumer EXCEPT ![c] = [job |-> j, limits |-> NoLimits,
                    at |-> IF job[j].ref = NoGroup THEN "run" ELSE "check"]]
  /\ UNCHANGED <<group, usage, today, peak, failures, updates>>

checkGroup(c) ==
  /\ consumer[c].at = "check"
  /\ LET g == job[consumer[c].job].ref IN
     /\ consumer' = [consumer EXCEPT ![c] = [consumer[c] EXCEPT !.limits = group[g],
                       !.at = IF group[g] \in {NoRow, NoLimits} THEN "run" ELSE "sums"]]
     /\ peak' = Seen(g, group[g])
  /\ UNCHANGED <<group, usage, today, job, failures, updates>>

MayRun(c) ==
  LET j == consumer[c].job
      l == consumer[c].limits IN
  ~exhaustedReason(l, used(job[j].ref, job[j].user, l.period))

\* A job over the limit is cancelled, its batch paused or its node failed.
checkUsed(c) ==
  /\ consumer[c].at = "sums"
  /\ IF MayRun(c) THEN consumer' = [consumer EXCEPT ![c] = [consumer[c] EXCEPT !.at = "run"]] /\ UNCHANGED job
     ELSE /\ job' = [job EXCEPT ![consumer[c].job] = [job[consumer[c].job] EXCEPT !.at = "stopped"]]
          /\ consumer' = [consumer EXCEPT ![c] = FreeConsumer]
  /\ UNCHANGED <<group, usage, today, peak, failures, updates>>

\* .catch(() => null): a check that fails lets its job run.
checkFails(c) ==
  /\ consumer[c].at \in {"check", "sums"} /\ failures < MaxFailures
  /\ consumer' = [consumer EXCEPT ![c] = [consumer[c] EXCEPT !.at = "run"]]
  /\ failures' = failures + 1
  /\ UNCHANGED <<group, usage, today, job, peak, updates>>

\* /metadata, then /complete: a row with the tokens of this attempt.  A job
\* that another consumer has by now is not completed by this one.
handleMetadata(c) ==
  /\ consumer[c].at = "run"
  /\ LET j == consumer[c].job
         r == <<job[j].ref, job[j].user, today>> IN
     \E n \in Reports :
       /\ usage' = [usage EXCEPT ![r] = usage[r] + n]
       /\ job' = IF job[j].at = "running" /\ \A d \in Consumers \ {c} : consumer[d].job # j
                 THEN [job EXCEPT ![j] = [job[j] EXCEPT !.at = "done"]] ELSE job
  /\ consumer' = [consumer EXCEPT ![c] = FreeConsumer]
  /\ UNCHANGED <<group, today, peak, failures, updates>>

\* The consumer is slow: the job goes to another one, both report.
LeaseLapses(j) ==
  /\ job[j].at = "running" /\ job[j].tries < MaxTries
  /\ job' = [job EXCEPT ![j] = [job[j] EXCEPT !.at = "queued"]]
  /\ UNCHANGED <<group, usage, today, consumer, peak, failures, updates>>

-----------------------------------------------------------------------------
\* Jobs under way hear of neither a change of limits nor a new day.
Changed == [j \in Jobs |-> [job[j] EXCEPT !.changed = job[j].changed \/ job[j].at # "new"]]

saveGroup(g, raw, rows) ==
  /\ updates < MaxUpdates /\ group[g] \in rows
  /\ normalizeTokenLimits(raw) # NoRow
  /\ group' = [group EXCEPT ![g] = normalizeTokenLimits(raw)]
  /\ job' = Changed /\ updates' = updates + 1
  /\ UNCHANGED <<usage, today, consumer, peak, failures>>

create(g, raw) == saveGroup(g, raw, {NoRow})
update(g, raw) == group[g] # NoRow /\ saveGroup(g, raw, {group[g]})

remove(g) ==
  /\ updates < MaxUpdates /\ group[g] # NoRow
  /\ group' = [group EXCEPT ![g] = NoRow]
  /\ job' = Changed /\ updates' = updates + 1
  /\ UNCHANGED <<usage, today, consumer, peak, failures>>

NewDay ==
  /\ today < LastDay /\ today' = today + 1 /\ job' = Changed
  /\ UNCHANGED <<group, usage, consumer, peak, failures, updates>>

BudgetNext ==
  \/ \E j \in Jobs :
       \/ \E u \in Payers, s \in Services : choose(j, u, s)
       \/ chooseGroup(j) \/ chooseUsed(j) \/ LeaseLapses(j)
  \/ \E c \in Consumers :
       \/ \E j \in Jobs : claim(c, j)
       \/ checkGroup(c) \/ checkUsed(c) \/ checkFails(c) \/ handleMetadata(c)
  \/ \E g \in Groups : (\E raw \in RawLimits : create(g, raw) \/ update(g, raw)) \/ remove(g)
  \/ NewDay

BudgetSpec == BudgetInit /\ [][BudgetNext]_budgetVars

-----------------------------------------------------------------------------
(* Properties.                                                             *)

\* What a group or a user uses in a day or month goes past the highest limit
\* that was in force by no more than what the consumers had in hand at once,
\* plus the jobs whose check failed (routes.ts:202, token-budget.ts:147-155):
\* slow consumers, new days and raised or lowered limits included.
Within(use, limit, over) == limit # Unlimited => use < limit + over
OverrunIsBounded ==
  \A g \in Groups, u \in Payers, period \in {"day", "month"} :
    LET over == (Cardinality(Consumers) + failures) * Max(Reports) IN
    /\ Within(used(g, u, period).group, peak[g][period].group_total, over)
    /\ Within(used(g, u, period).user, peak[g][period].per_user, over)

\* A job is refused only when no group of its user could pay for it, unless
\* limits or the day changed while it asked them one by one.
RefusedOnlyWhenUsedUp ==
  \A j \in Jobs : (job[j].at = "tooMany" /\ ~job[j].changed) =>
    \A k \in candidates(j) :
      LET g == PaidServices[job[j].service][k] IN
      group[g] \notin {NoRow, NoLimits}
        /\ exhaustedReason(group[g], used(g, job[j].user, group[g].period))

\* Both: no group overruns its limits by much, and nobody is refused for nothing.
BudgetIsKept == OverrunIsBounded /\ RefusedOnlyWhenUsedUp
=============================================================================
