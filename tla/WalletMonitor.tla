---------------------------- MODULE WalletMonitor ----------------------------
(***************************************************************************)
(* wallet/monitor.rs: rounds of checks over a list of wallets that the     *)
(* monitor shares with its owner, the verdicts it keeps, and the alerts    *)
(* made of them.                                                           *)
(*                                                                         *)
(* A check asks the node three times (balance, nonce, and the nonce again  *)
(* for the "expected" one), reads the list under its lock and stores the   *)
(* verdict under another.  A failed request ends the whole round.  A       *)
(* verdict is healthy exactly when it has no issue.                        *)
(***************************************************************************)
EXTENDS Naturals

CONSTANTS
    Wallets,
    Poor,         \* those with a success rate below 0.8
    Rounders,     \* the background loop, and callers of check_all_wallets
    MaxNonceGap,
    MaxNonce,     \* bound: nonces
    MaxAlerts     \* bound: unresolved alerts of a kind

VARIABLES
    wallets,        \* the list: its wallets' is_active
    health_status,  \* wallet -> [issues, nonce]
    round,          \* per rounder: where it is
    active_alerts,  \* alert_history: how many alerts are not resolved
    node_nonce,     \* what the node says of a wallet
    \* history
    regressed       \* the wallets of which the node has taken back a nonce

Issues == {"low_balance", "nonce_gap", "inactive", "low_success_rate", "not_found"}
AlertTypes == {"LowBalance", "HighNonceGap", "LowSuccessRate", "WalletOffline"}

NoRound == [at |-> "idle"]
Nothing == [w \in {} |-> {}]

Init ==
    /\ wallets = [w \in Wallets |-> TRUE]
    /\ health_status = Nothing
    /\ round = [r \in Rounders |-> NoRound]
    /\ active_alerts = [w \in Wallets |-> [t \in AlertTypes |-> 0]]
    /\ node_nonce = [w \in Wallets |-> 0]
    /\ regressed = {}

With(f, w, v) == [x \in DOMAIN f \cup {w} |-> IF x = w THEN v ELSE f[x]]

-----------------------------------------------------------------------------
\* The world: a wallet sends; a node that lags behind answers, or a reorganisation
\* takes transactions back; and the owner of the list changes it.
Send(w) ==
    /\ node_nonce[w] < MaxNonce
    /\ node_nonce' = [node_nonce EXCEPT ![w] = @ + 1]
    /\ UNCHANGED <<wallets, health_status, round, active_alerts, regressed>>

Regress(w, n) ==
    /\ n < node_nonce[w]
    /\ node_nonce' = [node_nonce EXCEPT ![w] = n]
    /\ regressed' = regressed \cup {w}
    /\ UNCHANGED <<wallets, health_status, round, active_alerts>>

Delist(w) ==
    /\ w \in DOMAIN wallets
    /\ wallets' = [x \in DOMAIN wallets \ {w} |-> wallets[x]]
    /\ UNCHANGED <<health_status, round, active_alerts, node_nonce, regressed>>

Enlist(w) ==
    /\ w \notin DOMAIN wallets
    /\ wallets' = With(wallets, w, TRUE)
    /\ UNCHANGED <<health_status, round, active_alerts, node_nonce, regressed>>

\* update_wallet_status
UpdateStatus(w, is_active) ==
    /\ w \in DOMAIN wallets
    /\ wallets' = [wallets EXCEPT ![w] = is_active]
    /\ UNCHANGED <<health_status, round, active_alerts, node_nonce, regressed>>

-----------------------------------------------------------------------------
\* check_all_wallets

Step(r, to) ==
    /\ round' = [round EXCEPT ![r] = to]
    /\ UNCHANGED <<wallets, active_alerts, node_nonce, regressed>>

\* A round works on a copy of the list, one wallet after the other, in any order, and
\* returns the verdicts at its end.
Begin(r) ==
    /\ round[r].at = "idle"
    /\ Step(r, [at |-> "balance", todo |-> DOMAIN wallets, verdicts |-> Nothing])
    /\ UNCHANGED health_status

\* get_wallet_balance of the next wallet
ReadBalance(r, w, low) ==
    /\ round[r].at = "balance" /\ w \in round[r].todo
    /\ Step(r, [at |-> "nonce", todo |-> round[r].todo \ {w}, verdicts |-> round[r].verdicts,
                wallet |-> w, issues |-> IF low THEN {"low_balance"} ELSE {}])
    /\ UNCHANGED health_status

\* get_wallet_nonce
ReadNonce(r) ==
    /\ round[r].at = "nonce"
    /\ Step(r, [at |-> "expected", todo |-> round[r].todo, verdicts |-> round[r].verdicts,
                wallet |-> round[r].wallet, issues |-> round[r].issues,
                nonce |-> node_nonce[round[r].wallet]])
    /\ UNCHANGED health_status

\* Mutation: the nonce of the last verdict is the expected one.
LastSeenNonce(w) == IF w \in DOMAIN health_status THEN health_status[w].nonce ELSE node_nonce[w]

\* get_expected_nonce asks the node for the nonce once more.
ExpectedNonce(w) == node_nonce[w]

ReadExpected(r) ==
    /\ round[r].at = "expected"
    /\ LET gap == round[r].nonce > ExpectedNonce(round[r].wallet) + MaxNonceGap IN
       Step(r, [round[r] EXCEPT !.at = "listed",
                                !.issues = @ \cup IF gap THEN {"nonce_gap"} ELSE {}])
    /\ UNCHANGED health_status

ListIssues(w) ==
    IF w \notin DOMAIN wallets THEN {"not_found"}
    ELSE (IF wallets[w] THEN {} ELSE {"inactive"})
            \cup (IF w \in Poor THEN {"low_success_rate"} ELSE {})

\* The rest of check_wallet_health, under the list's read lock.
ReadList(r) ==
    /\ round[r].at = "listed"
    /\ Step(r, [round[r] EXCEPT !.at = "insert",
                                !.issues = @ \cup ListIssues(round[r].wallet)])
    /\ UNCHANGED health_status

Insert(r) ==
    /\ round[r].at = "insert"
    /\ health_status' = With(health_status, round[r].wallet,
                             [issues |-> round[r].issues, nonce |-> round[r].nonce])
    /\ Step(r, [at |-> "balance", todo |-> round[r].todo,
                verdicts |-> With(round[r].verdicts, round[r].wallet, round[r].issues)])

\* The node fails: `?' ends the round, and the wallets after this one go unchecked.
Fail(r) ==
    /\ round[r].at \in {"balance", "nonce", "expected"}
    /\ round[r].at = "balance" => round[r].todo # {}
    /\ Step(r, NoRound)
    /\ UNCHANGED health_status

\* The loop drops what a round returns, and a caller what is left when it has made the
\* alerts or is dropped itself.
Drop(r) ==
    /\ round[r].at = "balance" /\ round[r].todo = {}
    /\ Step(r, NoRound)
    /\ UNCHANGED health_status

-----------------------------------------------------------------------------
\* WalletAlertManager

\* determine_alert_type; nothing makes a SlowResponse.
AlertType(issue) ==
    CASE issue = "low_balance" -> "LowBalance"
      [] issue = "nonce_gap" -> "HighNonceGap"
      [] issue = "low_success_rate" -> "LowSuccessRate"
      [] OTHER -> "WalletOffline"

\* check_and_create_alerts, with what a round returned: an alert for every issue, each
\* under a lock of its own, whether or not there is one already.
Alert(r, w, issue) ==
    LET verdicts == round[r].verdicts
        type == AlertType(issue) IN
    /\ round[r].at = "balance" /\ round[r].todo = {}
    /\ w \in DOMAIN verdicts /\ issue \in verdicts[w]
    /\ active_alerts[w][type] < MaxAlerts
    /\ active_alerts' = [active_alerts EXCEPT ![w][type] = @ + 1]
    /\ round' = [round EXCEPT ![r].verdicts = With(verdicts, w, verdicts[w] \ {issue})]
    /\ UNCHANGED <<wallets, health_status, node_nonce, regressed>>

\* resolve_alert; the alert stays in the history.
Resolve(w, t) ==
    /\ active_alerts[w][t] > 0
    /\ active_alerts' = [active_alerts EXCEPT ![w][t] = @ - 1]
    /\ UNCHANGED <<wallets, health_status, round, node_nonce, regressed>>

Next ==
    \/ \E w \in Wallets :
        \/ Send(w) \/ Enlist(w) \/ Delist(w)
        \/ \E n \in 0 .. MaxNonce : Regress(w, n)
        \/ \E is_active \in BOOLEAN : UpdateStatus(w, is_active)
        \/ \E t \in AlertTypes : Resolve(w, t)
    \/ \E r \in Rounders :
        \/ Begin(r) \/ ReadNonce(r) \/ ReadExpected(r) \/ ReadList(r) \/ Insert(r)
        \/ \E w \in Wallets, low \in BOOLEAN : ReadBalance(r, w, low)
        \/ \E w \in Wallets, issue \in Issues : Alert(r, w, issue)
        \/ Fail(r) \/ Drop(r)

-----------------------------------------------------------------------------
\* Properties

Verdicts == UNION {[ws -> SUBSET Issues] : ws \in SUBSET Wallets}

Rounds ==
    {NoRound}
        \cup [at : {"balance"}, todo : SUBSET Wallets, verdicts : Verdicts]
        \cup [at : {"nonce"}, todo : SUBSET Wallets, verdicts : Verdicts,
              wallet : Wallets, issues : SUBSET Issues]
        \cup [at : {"expected", "listed", "insert"}, todo : SUBSET Wallets, verdicts : Verdicts,
              wallet : Wallets, issues : SUBSET Issues, nonce : 0 .. MaxNonce]

\* Every variable has its type.
TypeOK ==
    /\ DOMAIN wallets \subseteq Wallets /\ \A w \in DOMAIN wallets : wallets[w] \in BOOLEAN
    /\ DOMAIN health_status \subseteq Wallets
    /\ \A w \in DOMAIN health_status :
        health_status[w] \in [issues : SUBSET Issues, nonce : 0 .. MaxNonce]
    /\ round \in [Rounders -> Rounds]
    /\ active_alerts \in [Wallets -> [AlertTypes -> 0 .. MaxAlerts]]
    /\ node_nonce \in [Wallets -> 0 .. MaxNonce]
    /\ regressed \subseteq Wallets

\* The nonce and the expected nonce are two answers to one question, so a gap is
\* reported only of a wallet of which the node has taken a nonce back: however many
\* transactions a healthy wallet sends between two rounds, or within one, and
\* however many it has stuck, the issue never arises.
GapNeedsRegression ==
    \A w \in Wallets :
        /\ w \in DOMAIN health_status /\ "nonce_gap" \in health_status[w].issues => w \in regressed
        /\ active_alerts[w].HighNonceGap > 0 => w \in regressed

MonitorAssumption ==
    /\ Poor \subseteq Wallets
    /\ MaxNonceGap \in Nat /\ MaxNonce \in Nat /\ MaxAlerts \in Nat
=============================================================================
