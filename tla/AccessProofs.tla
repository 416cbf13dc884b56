---------------------------- MODULE AccessProofs ----------------------------
(***************************************************************************)
(* Proofs about the components that MCAccess puts next to Sessions, for any  *)
(* requests, links, mailboxes, states, notifiers and codes.                  *)
(***************************************************************************)
EXTENDS MCAccess, FiniteSetTheorems, TLAPS

(* A component takes its own steps, or none. *)
LEMMA EachComponent ==
  ASSUME [AccessNext]_<<part, vars, resetVars, connectVars, limitVars, notifyVars>>
  PROVE  /\ UNCHANGED part
         /\ Resetting!Next \/ UNCHANGED resetVars
         /\ Connecting!Next \/ UNCHANGED connectVars
         /\ Limiting!Next \/ UNCHANGED limitVars
         /\ Notifying!Next \/ UNCHANGED notifyVars
BY DEF AccessNext

-----------------------------------------------------------------------------
(* PasswordReset.                                                            *)

LinkStatus == {"unsent", "stored", "gone"}
HoldsLink(r, l) == reset[r].link = {l}

(* A link that did not outlive its use is in one hand at most; it has set no *)
(* password while that hand is about to set one, or while it may still be    *)
(* looked up, unless it is about to be deleted.                              *)
SpentProperly(l) ==
    /\ used[l] <= 1
    /\ \A q, r \in Requests : HoldsLink(q, l) /\ HoldsLink(r, l) => q = r
    /\ \A r \in Requests : HoldsLink(r, l) /\ reset[r].at = "save" => used[l] = 0
    /\ link[l] # "gone" /\ (\A r \in Requests : HoldsLink(r, l) => reset[r].at # "spend") => used[l] = 0

LinkInv ==
    /\ link \in [Links -> LinkStatus] /\ used \in [Links -> Nat]
    /\ reset \in [Requests -> [at : {"idle", "save", "spend"}, link : SUBSET Links]]
    /\ \A r \in Requests : reset[r].at = "idle" => reset[r].link = {}
    /\ \A l \in Links : link[l] = "unsent" => \A r \in Requests : ~HoldsLink(r, l)
    /\ \A l \in Links : l \in outlived \/ SpentProperly(l)

LEMMA InitLinks == Resetting!Init => LinkInv
BY DEF Resetting!Init, Resetting!Idle, LinkInv, LinkStatus, HoldsLink, SpentProperly

LEMMA LinkSendKeeps ==
  ASSUME LinkInv, NEW l \in Links, Resetting!ForgotPassword(l) \/ Resetting!Expire(l)
  PROVE  LinkInv'
<1>1. UNCHANGED <<reset, used, outlived>> /\ link' \in [Links -> LinkStatus]
  BY DEF Resetting!ForgotPassword, Resetting!Expire, LinkInv, LinkStatus
<1>2. ASSUME NEW k \in Links
      PROVE  /\ k # l => link'[k] = link[k]
             /\ \/ link'[k] # "unsent" /\ link[k] # "gone"
                \/ link'[k] = link[k]
                \/ link'[k] = "gone" /\ link[k] = "stored"
  BY DEF Resetting!ForgotPassword, Resetting!Expire, LinkInv
<1>3. ASSUME NEW k \in Links, link'[k] = "unsent" PROVE \A r \in Requests : ~HoldsLink(r, k)'
  BY <1>1, <1>2, <1>3 DEF LinkInv, HoldsLink
<1>4. ASSUME NEW k \in Links PROVE k \in outlived' \/ SpentProperly(k)'
  BY <1>1, <1>2 DEF LinkInv, SpentProperly, HoldsLink
<1>5. QED BY <1>1, <1>3, <1>4 DEF LinkInv, HoldsLink

LEMMA LookUpKeeps ==
  ASSUME LinkInv, NEW r \in Requests, NEW l \in Links, Resetting!LookUp(r, l)
  PROVE  LinkInv'
<1>1. /\ UNCHANGED <<link, used>> /\ link[l] = "stored" /\ reset[r].link = {}
      /\ reset' = [reset EXCEPT ![r] = [at |-> "save", link |-> {l}]]
      /\ outlived' = outlived \cup {k \in {l} : \E q \in Requests : l \in reset[q].link}
  BY DEF Resetting!LookUp, Resetting!Goto, Resetting!Idle
<1>2. /\ reset' \in [Requests -> [at : {"idle", "save", "spend"}, link : SUBSET Links]]
      /\ reset'[r] = [at |-> "save", link |-> {l}] /\ \A q \in Requests : q # r => reset'[q] = reset[q]
  BY <1>1 DEF LinkInv
<1>3. \A q \in Requests, k \in Links : HoldsLink(q, k)' <=> HoldsLink(q, k) \/ (q = r /\ k = l)
  BY <1>1, <1>2 DEF HoldsLink
<1>4. ASSUME NEW k \in Links PROVE k \in outlived' \/ SpentProperly(k)'
  <2>1. CASE k # l
    <3>1. \A q \in Requests : (HoldsLink(q, k)' <=> HoldsLink(q, k)) /\ (HoldsLink(q, k) => reset'[q] = reset[q])
      BY <1>1, <1>2, <1>3, <2>1 DEF HoldsLink
    <3>2. QED BY <1>1, <2>1, <3>1 DEF LinkInv, SpentProperly
  <2>2. CASE k = l /\ \E q \in Requests : HoldsLink(q, l) BY <1>1, <2>2 DEF HoldsLink
  <2>3. CASE k = l /\ \A q \in Requests : ~HoldsLink(q, l)
    <3>1. \A q \in Requests : HoldsLink(q, l)' => q = r /\ reset'[q].at = "save" BY <1>2, <1>3, <2>3
    <3>2. l \in outlived \/ used[l] = 0 BY <1>1, <2>3 DEF LinkInv, SpentProperly
    <3>3. QED BY <1>1, <2>3, <3>1, <3>2 DEF SpentProperly
  <2>4. QED BY <2>1, <2>2, <2>3
<1>5. \A k \in Links : link'[k] = "unsent" => \A q \in Requests : ~HoldsLink(q, k)'
  BY <1>1, <1>3 DEF LinkInv
<1>6. \A q \in Requests : reset'[q].at = "idle" => reset'[q].link = {} BY <1>2 DEF LinkInv
<1>7. QED BY <1>1, <1>2, <1>4, <1>5, <1>6 DEF LinkInv

LEMMA SavePasswordKeeps ==
  ASSUME LinkInv, NEW r \in Requests, NEW l \in Links, Resetting!SavePassword(r, l)
  PROVE  LinkInv'
<1>1. /\ UNCHANGED <<link, outlived>> /\ HoldsLink(r, l) /\ reset[r].at = "save"
      /\ used' = [used EXCEPT ![l] = @ + 1]
      /\ reset' = [reset EXCEPT ![r] = [at |-> "spend", link |-> {l}]]
  BY DEF Resetting!SavePassword, Resetting!Goto, HoldsLink
<1>2. /\ reset' \in [Requests -> [at : {"idle", "save", "spend"}, link : SUBSET Links]]
      /\ reset'[r] = [at |-> "spend", link |-> {l}] /\ \A q \in Requests : q # r => reset'[q] = reset[q]
  BY <1>1 DEF LinkInv
<1>3. \A q \in Requests, k \in Links : HoldsLink(q, k)' <=> HoldsLink(q, k) BY <1>1, <1>2 DEF HoldsLink
<1>4. used' \in [Links -> Nat] /\ used'[l] = used[l] + 1 /\ \A k \in Links : k # l => used'[k] = used[k]
  BY <1>1 DEF LinkInv
<1>5. ASSUME NEW k \in Links PROVE k \in outlived' \/ SpentProperly(k)'
  <2>1. CASE k # l
    <3>1. \A q \in Requests : HoldsLink(q, k) => q # r BY <1>1, <2>1 DEF HoldsLink
    <3>2. QED BY <1>1, <1>2, <1>3, <1>4, <2>1, <3>1 DEF LinkInv, SpentProperly
  <2>2. CASE k = l /\ l \notin outlived
    <3>1. used[l] = 0 /\ \A q \in Requests : HoldsLink(q, l) => q = r
      BY <1>1, <2>2 DEF LinkInv, SpentProperly
    <3>2. used'[l] = 1 /\ reset'[r].at = "spend" /\ HoldsLink(r, l)' BY <1>1, <1>2, <1>3, <1>4, <3>1
    <3>3. QED BY <1>2, <1>3, <2>2, <3>1, <3>2 DEF SpentProperly
  <2>3. QED BY <1>1, <2>1, <2>2
<1>6. QED BY <1>1, <1>2, <1>3, <1>4, <1>5 DEF LinkInv

(* The link is deleted, or outlives its use; or the request gives up. *)
LEMMA LinkFinishKeeps ==
  ASSUME LinkInv, NEW r \in Requests,
         (\E l \in Links : Resetting!Spend(r, l)) \/ Resetting!GiveUp(r)
  PROVE  LinkInv'
<1>1. /\ UNCHANGED used /\ reset' = [reset EXCEPT ![r] = [at |-> "idle", link |-> {}]]
      /\ outlived \subseteq outlived'
  BY DEF Resetting!Spend, Resetting!GiveUp, Resetting!Finish, Resetting!Idle
<1>2. /\ reset' \in [Requests -> [at : {"idle", "save", "spend"}, link : SUBSET Links]]
      /\ reset'[r] = [at |-> "idle", link |-> {}] /\ \A q \in Requests : q # r => reset'[q] = reset[q]
  BY <1>1 DEF LinkInv
<1>3. \A q \in Requests, k \in Links : HoldsLink(q, k)' <=> HoldsLink(q, k) /\ q # r
  BY <1>1, <1>2 DEF HoldsLink
<1>4. /\ link' \in [Links -> LinkStatus]
      /\ \A k \in Links : link'[k] = link[k] \/ (link'[k] = "gone" /\ HoldsLink(r, k))
      /\ \A k \in Links : HoldsLink(r, k) /\ reset[r].at = "spend" => link'[k] = "gone" \/ k \in outlived'
  <2>1. CASE Resetting!GiveUp(r)
    BY <2>1 DEF Resetting!GiveUp, LinkInv, HoldsLink
  <2>2. CASE \E l \in Links : Resetting!Spend(r, l)
    <3>1. PICK l \in Links : Resetting!Spend(r, l) BY <2>2
    <3>2. HoldsLink(r, l) /\ \A k \in Links : HoldsLink(r, k) => k = l BY <3>1 DEF Resetting!Spend, HoldsLink
    <3>3. QED BY <3>1, <3>2 DEF Resetting!Spend, LinkInv, LinkStatus
  <2>3. QED BY <2>1, <2>2
<1>5. ASSUME NEW k \in Links PROVE k \in outlived' \/ SpentProperly(k)'
  <2> SUFFICES ASSUME k \notin outlived' PROVE SpentProperly(k)'
    OBVIOUS
  <2>1. SpentProperly(k) BY <1>1 DEF LinkInv
  <2>2. CASE HoldsLink(r, k)
    <3>1. \A q \in Requests : ~HoldsLink(q, k)' BY <1>3, <2>1, <2>2 DEF SpentProperly
    <3>2. link'[k] = "gone" \/ (reset[r].at = "save" /\ used[k] = 0)
      <4>1. reset[r].at \in {"save", "spend"} BY <2>2 DEF LinkInv, HoldsLink
      <4>2. QED BY <1>4, <2>1, <2>2, <4>1 DEF SpentProperly
    <3>3. QED BY <1>1, <2>1, <3>1, <3>2 DEF SpentProperly
  <2>3. CASE ~HoldsLink(r, k)
    <3>1. link'[k] = link[k] BY <1>4, <2>3
    <3>2. \A q \in Requests : (HoldsLink(q, k)' <=> HoldsLink(q, k)) /\ (HoldsLink(q, k) => reset'[q] = reset[q])
      BY <1>2, <1>3, <2>3
    <3>3. QED BY <1>1, <2>1, <3>1, <3>2 DEF SpentProperly
  <2>4. QED BY <2>2, <2>3
<1>6. \A k \in Links : link'[k] = "unsent" => \A q \in Requests : ~HoldsLink(q, k)'
  BY <1>3, <1>4 DEF LinkInv
<1>7. \A q \in Requests : reset'[q].at = "idle" => reset'[q].link = {} BY <1>2 DEF LinkInv
<1>8. used' \in [Links -> Nat] BY <1>1 DEF LinkInv
<1>9. QED BY <1>2, <1>4, <1>5, <1>6, <1>7, <1>8 DEF LinkInv

LEMMA NextLinks == LinkInv /\ (Resetting!Next \/ UNCHANGED resetVars) => LinkInv'
<1> SUFFICES ASSUME LinkInv, Resetting!Next \/ UNCHANGED resetVars PROVE LinkInv'
  OBVIOUS
<1>1. CASE UNCHANGED resetVars BY <1>1 DEF resetVars, LinkInv, SpentProperly, HoldsLink
<1>2. CASE Resetting!Next
  BY <1>2, LinkSendKeeps, LookUpKeeps, SavePasswordKeeps, LinkFinishKeeps DEF Resetting!Next
<1>3. QED BY <1>1, <1>2

-----------------------------------------------------------------------------
(* RateLimiter.                                                              *)

Limited == Allowance \in Nat /\ MaxHits \in Nat

(* Nobody is let through uncounted, the first hit of a window always is, and *)
(* a key without expiry has its Expire coming or lost.                                *)
WindowInv ==
    /\ count \in Nat /\ admitted \in Nat /\ ttl \in BOOLEAN /\ unset \in BOOLEAN
    /\ hit \in [Requests -> {"idle", "expire"}]
    /\ admitted <= count
    /\ Limiting!WindowHolds

LEMMA InitWindow == Limited /\ Limiting!Init => WindowInv
<1> SUFFICES ASSUME Limited, Limiting!Init PROVE WindowInv
  OBVIOUS
<1>1. count = 0 /\ admitted = 0 /\ hit \in [Requests -> {"idle", "expire"}] BY DEF Limiting!Init
<1>2. ttl = FALSE /\ unset = FALSE BY DEF Limiting!Init
<1>3. count \in Nat /\ admitted \in Nat /\ admitted <= count /\ admitted <= Allowance /\ ~(count > 0)
  BY <1>1 DEF Limited
<1>4. QED BY <1>1, <1>2, <1>3 DEF WindowInv, Limiting!WindowHolds

LEMMA IncrKeeps ==
  ASSUME Limited, WindowInv, NEW h \in Requests, Limiting!Incr(h)
  PROVE  WindowInv'
<1>1. /\ count' = count + 1 /\ UNCHANGED <<ttl, unset>>
      /\ admitted' = (IF Limiting!Within(count + 1) THEN admitted + 1 ELSE admitted)
      /\ hit' = (IF count + 1 = 1 THEN [hit EXCEPT ![h] = "expire"] ELSE hit)
  BY DEF Limiting!Incr
<1>2. count \in Nat /\ admitted \in Nat /\ admitted <= count /\ Allowance \in Nat
  BY DEF Limited, WindowInv
<1>3. hit' \in [Requests -> {"idle", "expire"}] BY <1>1 DEF WindowInv
<1>4. count' \in Nat /\ admitted' \in Nat /\ admitted' <= count' BY <1>1, <1>2
<1>5. admitted' <= Allowance \/ admitted' = 1
  <2>1. CASE count = 0 BY <1>1, <1>2, <2>1 DEF Limiting!Within
  <2>2. CASE count # 0 /\ count + 1 <= Allowance BY <1>1, <1>2, <2>2 DEF Limiting!Within
  <2>3. CASE count # 0 /\ ~(count + 1 <= Allowance)
    <3>1. admitted' = admitted BY <1>1, <1>2, <2>3 DEF Limiting!Within
    <3>2. QED BY <3>1 DEF WindowInv, Limiting!WindowHolds
  <2>4. QED BY <2>1, <2>2, <2>3
<1>6. ttl' \/ unset' \/ \E k \in Requests : hit'[k] = "expire"
  <2>1. CASE count = 0
    <3>1. hit'[h] = "expire" BY <1>1, <2>1 DEF WindowInv
    <3>2. QED BY <3>1
  <2>2. CASE count # 0
    <3>1. hit' = hit /\ count > 0 BY <1>1, <1>2, <2>2
    <3>2. QED BY <1>1, <3>1 DEF WindowInv, Limiting!WindowHolds
  <2>3. QED BY <2>1, <2>2
<1>7. QED BY <1>1, <1>3, <1>4, <1>5, <1>6 DEF WindowInv, Limiting!WindowHolds

LEMMA ExpireKeeps ==
  ASSUME WindowInv, NEW h \in Requests, Limiting!Expire(h) \/ Limiting!Stop(h)
  PROVE  WindowInv'
<1>1. UNCHANGED <<count, admitted>> /\ hit' \in [Requests -> {"idle", "expire"}]
  BY DEF Limiting!Expire, Limiting!Stop, WindowInv
<1>2. /\ ttl' \in BOOLEAN /\ unset' \in BOOLEAN
      /\ count' > 0 => ttl' \/ unset'
  <2> DEFINE counted == count > 0
  <2>1. counted \in BOOLEAN /\ (counted <=> count' > 0) BY <1>1
  <2>2. \/ ttl' = counted /\ unset' = FALSE
        \/ unset' = (counted /\ ~ttl) /\ ttl' = ttl
    BY DEF Limiting!Expire, Limiting!Stop
  <2>3. ttl \in BOOLEAN BY DEF WindowInv
  <2> HIDE DEF counted
  <2>4. CASE ttl' = counted /\ unset' = FALSE BY <2>1, <2>4
  <2>5. CASE unset' = (counted /\ ~ttl) /\ ttl' = ttl BY <2>1, <2>3, <2>5
  <2>6. QED BY <2>2, <2>4, <2>5
<1>3. QED BY <1>1, <1>2 DEF WindowInv, Limiting!WindowHolds

LEMMA NextWindow == Limited /\ WindowInv /\ (Limiting!Next \/ UNCHANGED limitVars) => WindowInv'
<1> SUFFICES ASSUME Limited, WindowInv, (Limiting!Next \/ UNCHANGED limitVars) PROVE WindowInv'
  OBVIOUS
<1>1. CASE UNCHANGED limitVars BY <1>1 DEF limitVars, WindowInv, Limiting!WindowHolds
<1>2. ASSUME NEW h \in Requests, Limiting!Incr(h) PROVE WindowInv' BY <1>2, IncrKeeps
<1>3. ASSUME NEW h \in Requests, Limiting!Expire(h) \/ Limiting!Stop(h) PROVE WindowInv' BY <1>3, ExpireKeeps
<1>4. CASE Limiting!Lapse \/ Limiting!Flush
  <2>1. count' = 0 /\ admitted' = 0 /\ hit' = hit BY <1>4 DEF Limiting!Lapse, Limiting!Flush, Limiting!Reset
  <2>2. ttl' = FALSE /\ unset' = FALSE BY <1>4 DEF Limiting!Lapse, Limiting!Flush, Limiting!Reset
  <2>3. /\ count' \in Nat /\ admitted' \in Nat /\ admitted' <= count' /\ admitted' <= Allowance
        /\ ~(count' > 0)
    BY <2>1 DEF Limited
  <2>4. QED BY <2>1, <2>2, <2>3 DEF WindowInv, Limiting!WindowHolds
<1>5. QED BY <1>1, <1>2, <1>3, <1>4 DEF Limiting!Next

-----------------------------------------------------------------------------
(* OAuthConnect.                                                             *)

Job == [at : {"idle", "exchange", "find", "save", "resave"}, state : States \cup {Connecting!None},
        pin : Accounts \cup {Connecting!None}, slug : Slugs \cup {Connecting!None},
        address : Addresses \cup {Connecting!None}, renews : BOOLEAN,
        id : Accounts \cup {Connecting!None}, row : Connecting!Row \cup {Connecting!NoRow}]

ConnectTypeOK ==
    /\ mailbox \in [Accounts -> Connecting!Row \cup {Connecting!NoRow}]
    /\ pending \in [States -> Connecting!State \cup {Connecting!NoState}]
    /\ consent \in [Requests -> Job]
    /\ spends \in [States -> Nat]
    /\ removed \subseteq Accounts /\ held \subseteq Accounts

TokensOpen(row) ==
    /\ row.address = row.seen
    /\ row.access \cup row.refresh \subseteq {<<row.provider, row.address>>}

(* The row that is about to be saved was sound when it was read; a callback's *)
(* is one of the address and the provider it brings tokens of; if it was      *)
(* deleted since, that was seen.                                              *)
SoundJob(job) ==
    /\ job.at \in {"exchange", "find", "save"} => job.slug \in Slugs
    /\ job.at \in {"find", "save"} => job.address \in Addresses
    /\ job.at = "save" => job.row.address = job.address /\ job.row.provider = job.slug
    /\ job.at \in {"save", "resave"} =>
        /\ job.id \in Accounts /\ job.row \in Connecting!Row
        /\ TokensOpen(job.row)
        /\ job.id \in removed => job.id \in held

(* A state that may still be consumed has not been. *)
ConnectInv ==
    /\ ConnectTypeOK
    /\ \A c \in Requests : SoundJob(consent[c])
    /\ \A a \in Accounts : mailbox[a] # Connecting!NoRow => TokensOpen(mailbox[a])
    /\ \A a \in removed : mailbox[a] # Connecting!NoRow => a \in held
    /\ \A s \in States : spends[s] <= 1 /\ (pending[s] # Connecting!NoState => spends[s] = 0)

LEMMA InitConnects == Connecting!Init => ConnectInv
BY DEF Connecting!Init, ConnectInv, ConnectTypeOK, SoundJob, Job,
       Connecting!NoConsent, Connecting!NoRow, Connecting!NoState, Connecting!None

(* What a callback may put into its job. *)
LEMMA JobPut ==
  ASSUME ConnectInv, NEW c \in Requests, NEW job \in Job, SoundJob(job)',
         consent' = [consent EXCEPT ![c] = job],
         removed' = removed /\ held' = held
  PROVE  consent' \in [Requests -> Job] /\ \A d \in Requests : SoundJob(consent[d])'
<1>1. consent \in [Requests -> Job] BY DEF ConnectInv, ConnectTypeOK
<1>2. consent' \in [Requests -> Job] BY <1>1
<1>3. \A d \in Requests : consent'[d] = IF d = c THEN job ELSE consent[d] BY <1>1
<1>4. ASSUME NEW d \in Requests PROVE SoundJob(consent[d])'
  <2>1. CASE d = c BY <1>3, <2>1
  <2>2. CASE d # c
    <3>1. SoundJob(consent[d]) /\ consent'[d] = consent[d] BY <1>3, <2>2 DEF ConnectInv
    <3>2. QED BY <3>1 DEF SoundJob
  <2>3. QED BY <2>1, <2>2
<1>5. QED BY <1>2, <1>4

LEMMA NoJob == Connecting!NoConsent \in Job /\ SoundJob(Connecting!NoConsent)'
BY DEF Job, SoundJob, Connecting!NoConsent, Connecting!NoRow, Connecting!None

(* A mailbox that is made, or saved over, is sound, and not one that was *)
(* deleted behind everybody's back.                                       *)
LEMMA MailboxPut ==
  ASSUME ConnectInv, NEW a \in Accounts, NEW row \in Connecting!Row, TokensOpen(row),
         a \in removed => a \in held,
         mailbox' = [mailbox EXCEPT ![a] = row],
         removed' = removed /\ held' = held
  PROVE  /\ mailbox' \in [Accounts -> Connecting!Row \cup {Connecting!NoRow}]
         /\ \A b \in Accounts : mailbox'[b] # Connecting!NoRow => TokensOpen(mailbox'[b])
         /\ \A b \in removed' : mailbox'[b] # Connecting!NoRow => b \in held'
<1>1. mailbox \in [Accounts -> Connecting!Row \cup {Connecting!NoRow}] /\ removed \subseteq Accounts
  BY DEF ConnectInv, ConnectTypeOK
<1>2. \A b \in Accounts : mailbox'[b] = IF b = a THEN row ELSE mailbox[b] BY <1>1
<1>3. QED BY <1>1, <1>2 DEF ConnectInv

LEMMA OwnerConnects ==
  ASSUME ConnectInv, NEW a \in Accounts, NEW slug \in Slugs, NEW address \in Addresses,
         Connecting!Create(a, slug, address) \/ Connecting!Delete(a)
  PROVE  ConnectInv'
<1>1. CASE Connecting!Create(a, slug, address)
  <2> DEFINE row == [provider |-> slug, address |-> address, seen |-> address,
                     access |-> {}, refresh |-> {}]
  <2>1. /\ mailbox' = [mailbox EXCEPT ![a] = row] /\ a \notin removed
        /\ UNCHANGED <<pending, consent, spends, removed, held>>
    BY <1>1 DEF Connecting!Create, Connecting!Unused
  <2>2. row \in Connecting!Row /\ TokensOpen(row) BY DEF Connecting!Row, TokensOpen
  <2>3. /\ mailbox' \in [Accounts -> Connecting!Row \cup {Connecting!NoRow}]
        /\ \A b \in Accounts : mailbox'[b] # Connecting!NoRow => TokensOpen(mailbox'[b])
        /\ \A b \in removed' : mailbox'[b] # Connecting!NoRow => b \in held'
    BY <2>1, <2>2, MailboxPut
  <2>4. QED BY <2>1, <2>3 DEF ConnectInv, ConnectTypeOK, SoundJob, TokensOpen
<1>2. CASE Connecting!Delete(a)
  <2>1. /\ mailbox' = [mailbox EXCEPT ![a] = Connecting!NoRow]
        /\ removed' = removed \cup {a}
        /\ held' = held \cup {b \in {a} : \E c \in Requests : consent[c].id = a}
        /\ UNCHANGED <<pending, consent, spends>>
    BY <1>2 DEF Connecting!Delete
  <2>2. /\ mailbox' \in [Accounts -> Connecting!Row \cup {Connecting!NoRow}]
        /\ \A b \in Accounts : mailbox'[b] = IF b = a THEN Connecting!NoRow ELSE mailbox[b]
    BY <2>1 DEF ConnectInv, ConnectTypeOK
  <2>3. ASSUME NEW c \in Requests PROVE SoundJob(consent[c])'
    <3>1. SoundJob(consent[c]) BY DEF ConnectInv
    <3>2. consent[c].id = a => a \in held' BY <2>1
    <3>3. QED BY <2>1, <3>1, <3>2 DEF SoundJob, TokensOpen
  <2>4. QED BY <2>1, <2>2, <2>3 DEF ConnectInv, ConnectTypeOK, TokensOpen
<1>3. QED BY <1>1, <1>2

(* A state is remembered, or expires. *)
LEMMA StateKeeps ==
  ASSUME ConnectInv, NEW s \in States,
         \/ \E slug \in Slugs : Connecting!Authorize(s, slug)
         \/ \E a \in Accounts : Connecting!Reauthorize(s, a)
         \/ Connecting!Expire(s)
  PROVE  ConnectInv'
<1>1. /\ UNCHANGED <<mailbox, consent, spends, removed, held>>
      /\ \E st \in Connecting!State \cup {Connecting!NoState} :
            pending' = [pending EXCEPT ![s] = st] /\ (st # Connecting!NoState => spends[s] = 0)
  <2>1. CASE \E slug \in Slugs : Connecting!Authorize(s, slug)
    BY <2>1 DEF Connecting!Authorize, Connecting!Remember, Connecting!State
  <2>2. CASE \E a \in Accounts : Connecting!Reauthorize(s, a)
    <3>1. PICK a \in Accounts : Connecting!Reauthorize(s, a) BY <2>2
    <3>2. mailbox[a] \in Connecting!Row BY <3>1 DEF Connecting!Reauthorize, ConnectInv, ConnectTypeOK
    <3>3. [provider |-> mailbox[a].provider, account |-> a] \in Connecting!State
      BY <3>2 DEF Connecting!State, Connecting!Row
    <3>4. QED BY <3>1, <3>3 DEF Connecting!Reauthorize, Connecting!Remember
  <2>3. CASE Connecting!Expire(s) BY <2>3 DEF Connecting!Expire
  <2>4. QED BY <2>1, <2>2, <2>3
<1>2. PICK st \in Connecting!State \cup {Connecting!NoState} :
          pending' = [pending EXCEPT ![s] = st] /\ (st # Connecting!NoState => spends[s] = 0)
  BY <1>1
<1>3. /\ pending' \in [States -> Connecting!State \cup {Connecting!NoState}]
      /\ \A t \in States : pending'[t] = IF t = s THEN st ELSE pending[t]
  BY <1>2 DEF ConnectInv, ConnectTypeOK
<1>4. \A t \in States : spends[t] <= 1 /\ (pending'[t] # Connecting!NoState => spends[t] = 0)
  BY <1>2, <1>3 DEF ConnectInv
<1>5. QED BY <1>1, <1>3, <1>4 DEF ConnectInv, ConnectTypeOK, SoundJob, TokensOpen

LEMMA CallbackKeeps ==
  ASSUME ConnectInv, NEW c \in Requests, NEW s \in States, NEW slug \in Slugs,
         Connecting!Callback(c, s, slug)
  PROVE  ConnectInv'
<1>1. /\ UNCHANGED <<mailbox, removed, held>> /\ pending[s] # Connecting!NoState
      /\ pending' = [pending EXCEPT ![s] = Connecting!NoState]
  BY DEF Connecting!Callback, Connecting!Consumed
<1>2. /\ pending' \in [States -> Connecting!State \cup {Connecting!NoState}]
      /\ \A t \in States : pending'[t] = IF t = s THEN Connecting!NoState ELSE pending[t]
  BY <1>1 DEF ConnectInv, ConnectTypeOK
<1>3. spends[s] = 0 /\ spends \in [States -> Nat] BY <1>1 DEF ConnectInv, ConnectTypeOK
<1>4. /\ spends' \in [States -> Nat]
      /\ \A t \in States : spends'[t] <= 1 /\ (pending'[t] # Connecting!NoState => spends'[t] = 0)
  <2>1. UNCHANGED spends \/ spends' = [spends EXCEPT ![s] = @ + 1] BY DEF Connecting!Callback
  <2>2. spends' \in [States -> Nat] /\ spends'[s] <= 1 /\ \A t \in States : t # s => spends'[t] = spends[t]
    BY <1>3, <2>1
  <2>3. QED BY <1>2, <2>2 DEF ConnectInv
<1>5. consent' \in [Requests -> Job] /\ \A d \in Requests : SoundJob(consent[d])'
  <2>1. CASE UNCHANGED consent BY <1>1, <2>1 DEF ConnectInv, ConnectTypeOK, SoundJob
  <2>2. CASE consent # consent'
    <3>1. consent' = [consent EXCEPT ![c] = [Connecting!NoConsent EXCEPT !.at = "exchange", !.state = s,
                                         !.pin = pending[s].account, !.slug = slug]]
      BY <2>2 DEF Connecting!Callback, Connecting!Goto
    <3>2. PICK job : job = [Connecting!NoConsent EXCEPT !.at = "exchange", !.state = s,
                                         !.pin = pending[s].account, !.slug = slug]
      OBVIOUS
    <3>3. pending[s].account \in Accounts \cup {Connecting!None}
      BY <1>1 DEF ConnectInv, ConnectTypeOK, Connecting!State
    <3>4. job \in Job
      BY <3>2, <3>3 DEF Job, Connecting!NoConsent
    <3>5. SoundJob(job)' BY <3>2 DEF SoundJob, Connecting!NoConsent
    <3>6. QED BY <1>1, <3>1, <3>2, <3>4, <3>5, JobPut
  <2>3. QED BY <2>1, <2>2
<1>6. QED BY <1>1, <1>2, <1>4, <1>5 DEF ConnectInv, ConnectTypeOK, TokensOpen

LEMMA ExchangeKeeps ==
  ASSUME ConnectInv, NEW c \in Requests, NEW address \in Addresses, NEW renews \in BOOLEAN,
         Connecting!Exchange(c, address, renews)
  PROVE  ConnectInv'
<1>1. /\ consent[c].at = "exchange" /\ UNCHANGED <<mailbox, pending, spends, removed, held>>
      /\ consent' = [consent EXCEPT ![c] = [consent[c] EXCEPT !.at = "find", !.address = address,
                                                              !.renews = renews]]
  BY DEF Connecting!Exchange, Connecting!Goto
<1>2. PICK job : job = [consent[c] EXCEPT !.at = "find", !.address = address, !.renews = renews]
  OBVIOUS
<1>3. consent[c] \in Job /\ consent[c].slug \in Slugs
  BY <1>1 DEF ConnectInv, ConnectTypeOK, SoundJob
<1>4. job \in Job BY <1>2, <1>3 DEF Job
<1>5. SoundJob(job)' BY <1>2, <1>3 DEF SoundJob, Job
<1>6. consent' \in [Requests -> Job] /\ \A d \in Requests : SoundJob(consent[d])'
  BY <1>1, <1>2, <1>4, <1>5, JobPut
<1>7. QED BY <1>1, <1>6 DEF ConnectInv, ConnectTypeOK, TokensOpen

LEMMA FindAccountKeeps ==
  ASSUME ConnectInv, NEW c \in Requests, NEW a \in Accounts, Connecting!FindAccount(c, a)
  PROVE  ConnectInv'
<1>1. /\ consent[c].at = "find" /\ UNCHANGED <<mailbox, pending, spends, removed, held>>
      /\ consent' = [consent EXCEPT ![c] = [consent[c] EXCEPT !.at = "save", !.id = a, !.row = mailbox[a]]]
      /\ mailbox[a] # Connecting!NoRow
      /\ mailbox[a].address = consent[c].address /\ mailbox[a].provider = consent[c].slug
  BY DEF Connecting!FindAccount, Connecting!Found, Connecting!Goto
<1>2. PICK job : job = [consent[c] EXCEPT !.at = "save", !.id = a, !.row = mailbox[a]]
  OBVIOUS
<1>3. consent[c] \in Job /\ consent[c].slug \in Slugs /\ consent[c].address \in Addresses
  BY <1>1 DEF ConnectInv, ConnectTypeOK, SoundJob
<1>4. /\ mailbox[a] \in Connecting!Row /\ TokensOpen(mailbox[a])
      /\ a \in removed => a \in held
  BY <1>1 DEF ConnectInv, ConnectTypeOK
<1>5. job \in Job BY <1>2, <1>3, <1>4 DEF Job
<1>6. /\ job.at = "save" /\ job.id = a /\ job.row = mailbox[a]
      /\ job.slug = consent[c].slug /\ job.address = consent[c].address
  BY <1>2, <1>3 DEF Job
<1>7. SoundJob(job)' BY <1>1, <1>3, <1>4, <1>6 DEF SoundJob, TokensOpen
<1>8. consent' \in [Requests -> Job] /\ \A d \in Requests : SoundJob(consent[d])'
  BY <1>1, <1>2, <1>5, <1>7, JobPut
<1>9. QED BY <1>1, <1>8 DEF ConnectInv, ConnectTypeOK, TokensOpen

(* A writer of another kind has read a mailbox. *)
LEMMA ReadKeeps ==
  ASSUME ConnectInv, NEW c \in Requests, NEW a \in Accounts, Connecting!Read(c, a)
  PROVE  ConnectInv'
<1>1. PICK job : job = [Connecting!NoConsent EXCEPT !.at = "resave", !.id = a, !.row = mailbox[a]]
  OBVIOUS
<1>2. /\ UNCHANGED <<mailbox, pending, spends, removed, held>>
      /\ consent' = [consent EXCEPT ![c] = job] /\ mailbox[a] # Connecting!NoRow
  BY <1>1 DEF Connecting!Read, Connecting!Goto
<1>3. /\ mailbox[a] \in Connecting!Row /\ TokensOpen(mailbox[a])
      /\ a \in removed => a \in held
  BY <1>2 DEF ConnectInv, ConnectTypeOK
<1>4. job \in Job /\ job.at = "resave" /\ job.id = a /\ job.row = mailbox[a]
  BY <1>1, <1>3 DEF Job, Connecting!NoConsent
<1>5. SoundJob(job)' BY <1>2, <1>3, <1>4 DEF SoundJob, TokensOpen
<1>6. consent' \in [Requests -> Job] /\ \A d \in Requests : SoundJob(consent[d])'
  BY <1>2, <1>4, <1>5, JobPut
<1>7. QED BY <1>2, <1>6 DEF ConnectInv, ConnectTypeOK, TokensOpen

(* A job goes on, or ends, and has saved or made a mailbox, or neither. *)
LEMMA MailboxSaved ==
  ASSUME ConnectInv, NEW c \in Requests, NEW job \in Job, SoundJob(job)',
         consent' = [consent EXCEPT ![c] = job],
         UNCHANGED <<pending, spends, removed, held>>,
         \/ UNCHANGED mailbox
         \/ \E a \in Accounts, row \in Connecting!Row :
                /\ TokensOpen(row) /\ (a \in removed => a \in held)
                /\ mailbox' = [mailbox EXCEPT ![a] = row]
  PROVE  ConnectInv'
<1>1. consent' \in [Requests -> Job] /\ \A d \in Requests : SoundJob(consent[d])'
  BY JobPut
<1>2. /\ mailbox' \in [Accounts -> Connecting!Row \cup {Connecting!NoRow}]
      /\ \A b \in Accounts : mailbox'[b] # Connecting!NoRow => TokensOpen(mailbox'[b])
      /\ \A b \in removed' : mailbox'[b] # Connecting!NoRow => b \in held'
  <2>1. CASE UNCHANGED mailbox BY <2>1 DEF ConnectInv, ConnectTypeOK
  <2>2. CASE \E a \in Accounts, row \in Connecting!Row :
                /\ TokensOpen(row) /\ (a \in removed => a \in held)
                /\ mailbox' = [mailbox EXCEPT ![a] = row]
    BY <2>2, MailboxPut
  <2>3. QED BY <2>1, <2>2
<1>3. QED BY <1>1, <1>2 DEF ConnectInv, ConnectTypeOK, TokensOpen

LEMMA ConsentEnds ==
  ASSUME ConnectInv, NEW c \in Requests,
         consent' = [consent EXCEPT ![c] = Connecting!NoConsent],
         UNCHANGED <<pending, spends, removed, held>>,
         \/ UNCHANGED mailbox
         \/ \E a \in Accounts, row \in Connecting!Row :
                /\ TokensOpen(row) /\ (a \in removed => a \in held)
                /\ mailbox' = [mailbox EXCEPT ![a] = row]
  PROVE  ConnectInv'
BY NoJob, MailboxSaved

LEMMA ResaveKeeps ==
  ASSUME ConnectInv, NEW c \in Requests, Connecting!Resave(c)
  PROVE  ConnectInv'
<1>1. PICK job, next : /\ job = consent[c] /\ next \in {job, Connecting!NoConsent}
                       /\ consent' = [consent EXCEPT ![c] = next]
  BY DEF Connecting!Resave, Connecting!Goto
<1>2. /\ job.at = "resave" /\ UNCHANGED <<pending, spends, removed, held>>
      /\ UNCHANGED mailbox \/ mailbox' = [mailbox EXCEPT ![job.id] = job.row]
  BY <1>1 DEF Connecting!Resave, Connecting!Store
<1>3. job \in Job /\ SoundJob(job) BY <1>1 DEF ConnectInv, ConnectTypeOK
<1>4. /\ job.id \in Accounts /\ job.row \in Connecting!Row /\ TokensOpen(job.row)
      /\ job.id \in removed => job.id \in held
  BY <1>2, <1>3 DEF SoundJob
<1>5. SoundJob(job)' BY <1>2, <1>3 DEF SoundJob, TokensOpen
<1>6. next \in Job /\ SoundJob(next)'
  <2>1. CASE next = job BY <1>3, <1>5, <2>1
  <2>2. CASE next = Connecting!NoConsent
    <3>1. next.at = "idle" /\ next \in Job BY <2>2, NoJob DEF Connecting!NoConsent
    <3>2. QED BY <3>1 DEF SoundJob
  <2>3. QED BY <1>1, <2>1, <2>2
<1>7. QED BY <1>1, <1>2, <1>4, <1>6, MailboxSaved

LEMMA SaveKeeps ==
  ASSUME ConnectInv, NEW c \in Requests, Connecting!Save(c)
  PROVE  ConnectInv'
<1> DEFINE job == consent[c]
           row == Connecting!Connected(job)
<1>1. /\ job.at = "save" /\ UNCHANGED <<pending, spends, removed, held>>
      /\ consent' = [consent EXCEPT ![c] = Connecting!NoConsent]
      /\ UNCHANGED mailbox \/ mailbox' = [mailbox EXCEPT ![job.id] = row]
  BY DEF Connecting!Save, Connecting!Store, Connecting!Goto
<1>2. /\ job \in Job /\ SoundJob(job) BY DEF ConnectInv, ConnectTypeOK
<1>3. /\ job.id \in Accounts /\ job.row \in Connecting!Row /\ TokensOpen(job.row)
      /\ job.row.address = job.address /\ job.row.provider = job.slug
      /\ job.slug \in Slugs /\ job.address \in Addresses
      /\ job.id \in removed => job.id \in held
  BY <1>1, <1>2 DEF SoundJob
<1>4. PICK kept : kept = job.row OBVIOUS
<1>5. PICK refresh \in SUBSET Connecting!Token :
         /\ row = [kept EXCEPT !.provider = job.slug, !.address = job.address,
                               !.access = {<<job.slug, job.address>>}, !.refresh = refresh]
         /\ refresh = {<<job.slug, job.address>>} \/ refresh = kept.refresh
  <2>1. {<<job.slug, job.address>>} \in SUBSET Connecting!Token BY <1>3 DEF Connecting!Token
  <2>2. kept.refresh \in SUBSET Connecting!Token BY <1>3, <1>4 DEF Connecting!Row
  <2>3. row = [kept EXCEPT !.provider = job.slug, !.address = job.address,
                           !.access = {<<job.slug, job.address>>},
                           !.refresh = IF job.renews THEN {<<job.slug, job.address>>} ELSE kept.refresh]
    BY <1>3, <1>4 DEF Connecting!Connected, Connecting!Row
  <2>4. QED BY <2>1, <2>2, <2>3
<1>6. row \in Connecting!Row
  <2>1. {<<job.slug, job.address>>} \in SUBSET Connecting!Token BY <1>3 DEF Connecting!Token
  <2>2. QED BY <1>3, <1>4, <1>5, <2>1 DEF Connecting!Row
<1>7. TokensOpen(row)
  <2>1. /\ row.provider = job.slug /\ row.address = job.address /\ row.seen = kept.seen
        /\ row.access = {<<job.slug, job.address>>} /\ row.refresh = refresh
    BY <1>3, <1>4, <1>5 DEF Connecting!Row
  <2>2. QED BY <1>3, <1>4, <1>5, <2>1 DEF TokensOpen
<1> HIDE DEF job, row
<1>8. QED BY <1>1, <1>3, <1>6, <1>7, ConsentEnds

LEMMA ConnectKeeps ==
  ASSUME ConnectInv, NEW c \in Requests, NEW a \in Accounts, Connecting!Connect(c, a)
  PROVE  ConnectInv'
<1> DEFINE job == consent[c]
           token == {<<job.slug, job.address>>}
           row == [provider |-> job.slug, address |-> job.address, seen |-> job.address,
                   access |-> token, refresh |-> IF job.renews THEN token ELSE {}]
<1>1. /\ job.at = "find" /\ UNCHANGED <<pending, spends, removed, held>> /\ a \notin removed
      /\ consent' = [consent EXCEPT ![c] = Connecting!NoConsent]
      /\ mailbox' = [mailbox EXCEPT ![a] = row]
  BY DEF Connecting!Connect, Connecting!Goto, Connecting!Unused
<1>2. job.slug \in Slugs /\ job.address \in Addresses
  BY <1>1 DEF ConnectInv, SoundJob
<1>3. row \in Connecting!Row /\ TokensOpen(row)
  BY <1>2 DEF Connecting!Row, Connecting!Token, TokensOpen
<1> HIDE DEF row
<1>4. QED BY <1>1, <1>3, ConsentEnds

LEMMA NextConnects == ConnectInv /\ (Connecting!Next \/ UNCHANGED connectVars) => ConnectInv'
<1> SUFFICES ASSUME ConnectInv, Connecting!Next \/ UNCHANGED connectVars PROVE ConnectInv'
  OBVIOUS
<1>1. CASE UNCHANGED connectVars
  BY <1>1 DEF connectVars, ConnectInv, ConnectTypeOK, SoundJob, TokensOpen
<1>2. CASE \E a \in Accounts, slug \in Slugs, address \in Addresses : Connecting!Create(a, slug, address)
  BY <1>2, OwnerConnects
<1>3. ASSUME NEW a \in Accounts, Connecting!Delete(a) PROVE ConnectInv'
  <2>1. mailbox[a] \in Connecting!Row
    BY <1>3 DEF Connecting!Delete, ConnectInv, ConnectTypeOK
  <2>2. mailbox[a].provider \in Slugs /\ mailbox[a].address \in Addresses BY <2>1 DEF Connecting!Row
  <2>3. QED BY <1>3, <2>2, OwnerConnects
<1>4. CASE \E s \in States :
              \/ \E slug \in Slugs : Connecting!Authorize(s, slug)
              \/ \E a \in Accounts : Connecting!Reauthorize(s, a)
              \/ Connecting!Expire(s)
  BY <1>4, StateKeeps
<1>5. CASE \E c \in Requests, s \in States, slug \in Slugs : Connecting!Callback(c, s, slug)
  BY <1>5, CallbackKeeps
<1>6. CASE \E c \in Requests, address \in Addresses, renews \in BOOLEAN :
              Connecting!Exchange(c, address, renews)
  BY <1>6, ExchangeKeeps
<1>7. CASE \E c \in Requests, a \in Accounts : Connecting!FindAccount(c, a)
  BY <1>7, FindAccountKeeps
<1>8. CASE \E c \in Requests, a \in Accounts : Connecting!Connect(c, a)
  BY <1>8, ConnectKeeps
<1>9. CASE \E c \in Requests : Connecting!Save(c) BY <1>9, SaveKeeps
<1>10. CASE \E c \in Requests : Connecting!GiveUp(c)
  BY <1>10, ConsentEnds DEF Connecting!GiveUp, Connecting!Goto
<1>11. CASE \E c \in Requests : (\E a \in Accounts : Connecting!Read(c, a)) \/ Connecting!Resave(c)
  BY <1>11, ReadKeeps, ResaveKeeps
<1>12. QED
  BY <1>1, <1>2, <1>3, <1>4, <1>5, <1>6, <1>7, <1>8, <1>9, <1>10, <1>11 DEF Connecting!Next

-----------------------------------------------------------------------------
(* Notifiers.                                                                *)

(* No code that is drawn says that there is none, or no need of one. *)
CodesDrawn == Draws \cap {Notifying!NoCode, Notifying!Unneeded} = {}

FoundRows ==
    \A r \in Requests :
        /\ work[r].at \in {"found", "bind"} => work[r].row \in Notifying!Row
        /\ work[r].at = "idle" => work[r].row.code = Notifying!NoCode

(* A default is made by one request at a time, which clears every other it  *)
(* left in place.                                                            *)
OneWriter ==
    /\ \A m, n \in Notifying!Defaults : m = n
    /\ \A q, r \in Requests : Notifying!Writing(q) /\ Notifying!Writing(r) => q = r
    /\ \A r \in Requests, n \in Channels : Notifying!Writing(r) /\ work[r].id = {n} =>
            Notifying!Defaults \ work[r].clears \subseteq {n}

(* A code was drawn for the one notifier that has it, or had it.             *)
OwnCodes ==
    /\ \A n \in Channels : notifier[n].code \in Draws => drawn[notifier[n].code] = {n}
    /\ \A r \in Requests : work[r].row.code \in Draws =>
            work[r].id = drawn[work[r].row.code] /\ work[r].id # {}
    /\ \A d \in spent : drawn[d] # {}

(* Once it has verified that notifier it is neither there nor about to be.   *)
SpentGone ==
    \A d \in spent :
        /\ \A n \in Channels : notifier[n].code # d
        /\ \A r \in Requests : Notifying!Writing(r) => work[r].row.code # d

NotifyInv ==
    /\ Notifying!TypeOK
    /\ FoundRows
    /\ clashed \/ OneWriter
    /\ OwnCodes /\ SpentGone
    /\ Notifying!CodeSpentOnce

LEMMA InitNotifies == CodesDrawn /\ Notifying!Init => NotifyInv
<1> SUFFICES ASSUME CodesDrawn, Notifying!Init PROVE NotifyInv
  OBVIOUS
<1>1. Notifying!TypeOK
  BY DEF Notifying!Init, Notifying!TypeOK, Notifying!Work, Notifying!NoWork, Notifying!NoRow
<1>2. FoundRows /\ OwnCodes
  BY DEF CodesDrawn, Notifying!Init, FoundRows, OwnCodes, Notifying!NoRow, Notifying!NoWork
<1>3. OneWriter
  BY DEF Notifying!Init, OneWriter, Notifying!Defaults, Notifying!Writing, Notifying!NoRow, Notifying!NoWork
<1>4. SpentGone /\ Notifying!CodeSpentOnce
  BY DEF Notifying!Init, SpentGone, Notifying!CodeSpentOnce
<1>5. QED BY <1>1, <1>2, <1>3, <1>4 DEF NotifyInv

(* The parts of a row. *)
LEMMA RowParts ==
  ASSUME Notifying!TypeOK, NEW n \in Channels
  PROVE  /\ notifier[n].default \in BOOLEAN
         /\ notifier[n].code \in Draws \cup {Notifying!NoCode, Notifying!Unneeded}
         /\ notifier[n] # Notifying!NoRow => notifier[n] \in Notifying!Row
<1>1. notifier[n] \in Notifying!Row \/ notifier[n] = Notifying!NoRow BY DEF Notifying!TypeOK
<1>2. CASE notifier[n] \in Notifying!Row BY <1>2 DEF Notifying!Row
<1>3. CASE notifier[n] = Notifying!NoRow BY <1>3 DEF Notifying!NoRow
<1>4. QED BY <1>1, <1>2, <1>3

(* A request gets on to something. *)
LEMMA OthersWork ==
  ASSUME Notifying!TypeOK, NEW r \in Requests, NEW rec, work' = [work EXCEPT ![r] = rec]
  PROVE  work'[r] = rec /\ \A q \in Requests : q # r => work'[q] = work[q]
BY DEF Notifying!TypeOK

(* What a save finds out about the code of the row that was read, and what   *)
(* it says of the code that is saved: one that was drawn just now, or the    *)
(* one that was read, unless this save spends it.                            *)
Saved(r, n, row, spending) ==
    /\ Notifying!Overtakes(r, n, spending)
    /\ work[r].row.code \in Draws => work[r].id = {n}
    /\ row.code \in Draws =>
        /\ drawn'[row.code] = {n}
        /\ \/ drawn[row.code] = {}
           \/ row.code = work[r].row.code /\ ~spending

(* A code is drawn, or none. *)
Drawing ==
    /\ drawn' \in [Draws -> SUBSET Channels]
    /\ \A d \in Draws : drawn[d] # {} => drawn'[d] = drawn[d]

(* The codes after a save: what was drawn stays with its notifier, and what  *)
(* is spent and not overtaken was the code of n until now.                   *)
LEMMA CodesAfter ==
  ASSUME CodesDrawn, NotifyInv, NEW r \in Requests, NEW n \in Channels, NEW spending \in BOOLEAN,
         NEW row, Saved(r, n, row, spending), Drawing
  PROVE  /\ overtaken' \subseteq Draws /\ spent' \subseteq Draws /\ respent' \subseteq Draws
         /\ Notifying!CodeSpentOnce'
         /\ \A d \in spent' : \/ d \in spent
                              \/ spending /\ d = work[r].row.code /\ d = notifier[n].code
         /\ row.code \in Draws => row.code \notin spent'
<1> DEFINE code == Draws \cap {work[r].row.code}
           now == IF spending THEN code ELSE {}
<1>1. /\ overtaken' = overtaken \cup (code \ {notifier[n].code})
      /\ spent' = (spent \cup now) \ overtaken'
      /\ respent' = respent \cup ((now \cap spent) \ overtaken')
  BY DEF Saved, Notifying!Overtakes
<1>2. /\ overtaken \subseteq Draws /\ spent \subseteq Draws /\ respent = {}
      /\ SpentGone /\ OwnCodes
  BY DEF NotifyInv, Notifying!TypeOK, Notifying!CodeSpentOnce
<1>3. now \subseteq code /\ code \subseteq Draws /\ \A d \in code : d = work[r].row.code
  OBVIOUS
<1>4. \A d \in code : d \in overtaken' \/ d = notifier[n].code BY <1>1
<1>5. (now \cap spent) \ overtaken' = {} BY <1>2, <1>3, <1>4 DEF SpentGone
<1>6. Notifying!CodeSpentOnce' BY <1>1, <1>2, <1>5 DEF Notifying!CodeSpentOnce
<1>7. ASSUME NEW d \in spent'
      PROVE  d \in spent \/ (spending /\ d = work[r].row.code /\ d = notifier[n].code)
  <2>1. d \notin overtaken' /\ (d \in spent \/ d \in now) BY <1>1
  <2>2. CASE d \in now
    <3>1. spending /\ d \in code BY <2>2
    <3>2. QED BY <1>3, <1>4, <2>1, <3>1
  <2>3. QED BY <2>1, <2>2
<1>8. ASSUME row.code \in Draws, row.code \in spent' PROVE FALSE
  <2>1. CASE drawn[row.code] = {}
    <3>1. row.code \in spent \/ row.code = notifier[n].code BY <1>7, <1>8
    <3>2. QED BY <1>2, <1>8, <2>1, <3>1 DEF OwnCodes
  <2>2. CASE row.code = work[r].row.code /\ ~spending
    <3>1. row.code \in code /\ row.code \in spent BY <1>7, <1>8, <2>2
    <3>2. row.code = notifier[n].code BY <1>1, <1>4, <1>8, <3>1
    <3>3. QED BY <1>2, <3>1, <3>2 DEF SpentGone
  <2>3. QED BY <1>8, <2>1, <2>2 DEF Saved
<1>9. QED BY <1>1, <1>2, <1>3, <1>5, <1>6, <1>7, <1>8

LEMMA ClearDefaultKeeps ==
  ASSUME CodesDrawn, NotifyInv, NEW r \in Requests, NEW n \in Channels, NEW row \in Notifying!Row,
         Notifying!ClearDefault(r, n, row), Saved(r, n, row, FALSE), Drawing, UNCHANGED expired
  PROVE  NotifyInv'
<1> DEFINE rec == [at |-> "commit", id |-> {n}, row |-> row, clears |-> Notifying!Defaults \ {n}]
<1>1. /\ UNCHANGED notifier /\ work' = [work EXCEPT ![r] = rec]
      /\ clashed' = (clashed \/ \E q \in Requests : Notifying!Writing(q))
  BY DEF Notifying!ClearDefault, Notifying!Goto
<1>2. rec \in Notifying!Work
  BY DEF Notifying!Work, Notifying!Defaults
<1>3. work'[r] = rec /\ \A q \in Requests : q # r => work'[q] = work[q]
  BY <1>1, OthersWork DEF NotifyInv
<1>4. /\ overtaken' \subseteq Draws /\ spent' \subseteq Draws /\ respent' \subseteq Draws
      /\ Notifying!CodeSpentOnce'
      /\ spent' \subseteq spent
      /\ row.code \in Draws => row.code \notin spent'
  BY CodesAfter, FALSE \in BOOLEAN
<1>5. Notifying!TypeOK'
  <2>1. work' \in [Requests -> Notifying!Work] BY <1>1, <1>2 DEF NotifyInv, Notifying!TypeOK
  <2>2. clashed' \in BOOLEAN BY <1>1 DEF NotifyInv, Notifying!TypeOK
  <2>3. QED BY <1>1, <1>4, <2>1, <2>2 DEF NotifyInv, Notifying!TypeOK, Drawing
<1>6. FoundRows' BY <1>1, <1>3 DEF NotifyInv, FoundRows
<1>7. ASSUME ~clashed' PROVE OneWriter'
  <2>1. OneWriter /\ \A q \in Requests : ~Notifying!Writing(q) BY <1>1, <1>7 DEF NotifyInv
  <2>2. \A q \in Requests : Notifying!Writing(q)' => q = r BY <1>3, <2>1 DEF Notifying!Writing
  <2>3. Notifying!Defaults' = Notifying!Defaults BY <1>1 DEF Notifying!Defaults
  <2>4. work'[r].id = {n} /\ work'[r].clears = Notifying!Defaults \ {n} BY <1>3
  <2>5. QED BY <2>1, <2>2, <2>3, <2>4 DEF OneWriter
<1>8. OwnCodes'
  <2>1. OwnCodes BY DEF NotifyInv
  <2>2. \A m \in Channels : notifier'[m].code \in Draws => drawn'[notifier'[m].code] = {m}
    BY <1>1, <2>1 DEF OwnCodes, Drawing
  <2>3. ASSUME NEW q \in Requests, work'[q].row.code \in Draws
        PROVE  work'[q].id = drawn'[work'[q].row.code] /\ work'[q].id # {}
    <3>1. CASE q = r BY <1>3, <2>3, <3>1 DEF Saved
    <3>2. CASE q # r BY <1>3, <2>1, <2>3, <3>2 DEF OwnCodes, Drawing
    <3>3. QED BY <3>1, <3>2
  <2>4. \A d \in spent' : drawn'[d] # {} BY <1>4, <2>1 DEF OwnCodes, Drawing
  <2>5. QED BY <2>2, <2>3, <2>4 DEF OwnCodes
<1>9. SpentGone'
  <2>1. SpentGone BY DEF NotifyInv
  <2>2. ASSUME NEW d \in spent', NEW q \in Requests, Notifying!Writing(q)' PROVE work'[q].row.code # d
    <3>1. CASE q = r BY <1>3, <1>4, <3>1
    <3>2. CASE q # r BY <1>3, <1>4, <2>1, <2>2, <3>2 DEF SpentGone, Notifying!Writing
    <3>3. QED BY <3>1, <3>2
  <2>3. QED BY <1>1, <1>4, <2>1, <2>2 DEF SpentGone
<1>10. QED BY <1>4, <1>5, <1>6, <1>7, <1>8, <1>9 DEF NotifyInv

(* What a write outside Commit keeps: no default comes about, and the code   *)
(* of the row is one of its notifier that is not spent.                      *)
LEMMA RowWritten ==
  ASSUME CodesDrawn, NotifyInv, NEW r \in Requests, NEW n \in Channels,
         NEW row \in Notifying!Row \cup {Notifying!NoRow},
         Notifying!Free(n),
         notifier' = [notifier EXCEPT ![n] = row],
         work' = [work EXCEPT ![r] = Notifying!NoWork],
         Drawing, UNCHANGED expired,
         overtaken' \subseteq Draws /\ spent' \subseteq Draws /\ respent' \subseteq Draws,
         Notifying!CodeSpentOnce',
         \A d \in spent' : d \in spent \/ d = notifier[n].code,
         row.code \in Draws => drawn'[row.code] = {n} /\ row.code \notin spent',
         clashed' \in BOOLEAN,
         ~clashed' => ~clashed /\ (row.default => notifier[n].default)
  PROVE  NotifyInv'
<1>1. Notifying!TypeOK /\ OwnCodes /\ SpentGone BY DEF NotifyInv
<1>2. /\ notifier' \in [Channels -> Notifying!Row \cup {Notifying!NoRow}]
      /\ \A m \in Channels : notifier'[m] = IF m = n THEN row ELSE notifier[m]
  BY <1>1 DEF Notifying!TypeOK
<1>3. work'[r] = Notifying!NoWork /\ \A q \in Requests : q # r => work'[q] = work[q]
  BY <1>1, OthersWork
<1>4. Notifying!TypeOK'
  <2>1. Notifying!NoWork \in Notifying!Work BY DEF Notifying!Work, Notifying!NoWork
  <2>2. work' \in [Requests -> Notifying!Work] BY <1>1, <2>1 DEF Notifying!TypeOK
  <2>3. QED BY <1>1, <1>2, <2>2 DEF Notifying!TypeOK, Drawing
<1>5. Notifying!NoWork.at = "idle" /\ Notifying!NoWork.row.code = Notifying!NoCode
  BY DEF Notifying!NoWork, Notifying!NoRow
<1>6. \A q \in Requests : Notifying!Writing(q)' => Notifying!Writing(q) /\ work'[q] = work[q]
  BY <1>3, <1>5 DEF Notifying!Writing
<1>7. FoundRows' BY <1>3, <1>5 DEF NotifyInv, FoundRows
<1>8. ASSUME ~clashed' PROVE OneWriter'
  <2>1. OneWriter BY <1>8 DEF NotifyInv
  <2>2. Notifying!Defaults' \subseteq Notifying!Defaults BY <1>2, <1>8 DEF Notifying!Defaults
  <2>3. QED BY <1>6, <2>1, <2>2 DEF OneWriter
<1>9. OwnCodes'
  <2>1. \A m \in Channels : notifier'[m].code \in Draws => drawn'[notifier'[m].code] = {m}
    BY <1>1, <1>2 DEF OwnCodes, Drawing
  <2>2. \A q \in Requests : work'[q].row.code \in Draws =>
            work'[q].id = drawn'[work'[q].row.code] /\ work'[q].id # {}
    BY <1>1, <1>3, <1>5 DEF OwnCodes, Drawing, CodesDrawn
  <2>3. \A d \in spent' : d \in Draws /\ drawn[d] # {}
    BY <1>1 DEF OwnCodes
  <2>4. \A d \in spent' : drawn'[d] # {} BY <2>3 DEF Drawing
  <2>5. QED BY <2>1, <2>2, <2>4 DEF OwnCodes
<1>10. SpentGone'
  <2>1. ASSUME NEW d \in spent', NEW m \in Channels PROVE notifier'[m].code # d
    <3>1. CASE m = n BY <1>2, <2>1, <3>1
    <3>2. CASE m # n /\ d \in spent BY <1>1, <1>2, <3>2 DEF SpentGone
    <3>3. CASE m # n /\ d = notifier[n].code BY <1>1, <1>2, <2>1, <3>3 DEF OwnCodes
    <3>4. QED BY <2>1, <3>1, <3>2, <3>3
  <2>2. ASSUME NEW d \in spent', NEW q \in Requests, Notifying!Writing(q)' PROVE work'[q].row.code # d
    <3>1. Notifying!Writing(q) /\ work'[q] = work[q] BY <1>6, <2>2
    <3>2. CASE d \in spent BY <1>1, <3>1, <3>2 DEF SpentGone
    <3>3. CASE d = notifier[n].code
      <4>1. n \notin work[q].id BY <3>1 DEF Notifying!Free
      <4>2. d \in Draws /\ drawn[d] = {n} BY <1>1, <2>2, <3>3 DEF OwnCodes
      <4>3. work[q].row.code = d => work[q].id = {n} BY <1>1, <4>2 DEF OwnCodes
      <4>4. QED BY <3>1, <4>1, <4>3
    <3>4. QED BY <2>2, <3>2, <3>3
  <2>3. QED BY <2>1, <2>2 DEF SpentGone
<1>11. QED BY <1>4, <1>7, <1>8, <1>9, <1>10 DEF NotifyInv

LEMMA OverwriteKeeps ==
  ASSUME CodesDrawn, NotifyInv, NEW r \in Requests, NEW n \in Channels, NEW row \in Notifying!Row,
         NEW spending \in BOOLEAN,
         Notifying!Overwrite(r, n, row), Saved(r, n, row, spending), Drawing, UNCHANGED expired
  PROVE  NotifyInv'
<1>1. /\ notifier' = [notifier EXCEPT ![n] = row] /\ Notifying!Free(n)
      /\ clashed' = (clashed \/ (row.default /\ ~notifier[n].default))
      /\ work' = [work EXCEPT ![r] = Notifying!NoWork]
  BY DEF Notifying!Overwrite, Notifying!Goto
<1>2. /\ overtaken' \subseteq Draws /\ spent' \subseteq Draws /\ respent' \subseteq Draws
      /\ Notifying!CodeSpentOnce'
      /\ \A d \in spent' : d \in spent \/ d = notifier[n].code
      /\ row.code \in Draws => row.code \notin spent'
  BY CodesAfter
<1>3. row.code \in Draws => drawn'[row.code] = {n} BY DEF Saved
<1>4. clashed \in BOOLEAN BY DEF NotifyInv, Notifying!TypeOK
<1>5. /\ clashed' \in BOOLEAN
      /\ ~clashed' => ~clashed /\ (row.default => notifier[n].default)
  BY <1>1, <1>4
<1>6. QED BY <1>1, <1>2, <1>3, <1>5, RowWritten

LEMMA CommitKeeps ==
  ASSUME CodesDrawn, NotifyInv, NEW r \in Requests, NEW n \in Channels, Notifying!Commit(r, n)
  PROVE  NotifyInv'
<1> DEFINE row == work[r].row
<1>1. /\ Notifying!Writing(r) /\ work[r].id = {n}
      /\ UNCHANGED <<drawn, expired, overtaken, spent, respent, clashed>>
      /\ notifier' = [m \in Channels |-> IF m = n THEN row
                                         ELSE [notifier[m] EXCEPT !.default = @ /\ m \notin work[r].clears]]
      /\ work' = [work EXCEPT ![r] = Notifying!NoWork]
  BY DEF Notifying!Commit, Notifying!Goto
<1>2. Notifying!TypeOK /\ OwnCodes /\ SpentGone BY DEF NotifyInv
<1>3. row \in Notifying!Row \cup {Notifying!NoRow} BY <1>2 DEF Notifying!TypeOK, Notifying!Work
<1>4. notifier'[n] = row BY <1>1
<1>5. ASSUME NEW m \in Channels, m # n
      PROVE  /\ notifier'[m] \in Notifying!Row \cup {Notifying!NoRow}
             /\ notifier'[m].code = notifier[m].code
             /\ notifier'[m].default => notifier[m].default /\ m \notin work[r].clears
  <2>1. notifier'[m] = [notifier[m] EXCEPT !.default = @ /\ m \notin work[r].clears] BY <1>1, <1>5
  <2>2. CASE notifier[m] \in Notifying!Row BY <2>1, <2>2 DEF Notifying!Row
  <2>3. CASE notifier[m] = Notifying!NoRow
    <3> DEFINE stays == notifier[m].default /\ m \notin work[r].clears
    <3>1. notifier'[m] = [notifier[m] EXCEPT !.default = stays] BY <2>1
    <3>2. stays = FALSE /\ notifier[m].default = FALSE BY <2>3 DEF Notifying!NoRow
    <3> HIDE DEF stays
    <3>3. \A old : old = Notifying!NoRow => [old EXCEPT !.default = old.default] = old BY DEF Notifying!NoRow
    <3>4. notifier'[m] = Notifying!NoRow BY <2>3, <3>1, <3>2, <3>3
    <3>5. QED BY <2>3, <3>4 DEF Notifying!NoRow
  <2>4. QED BY <1>2, <2>2, <2>3 DEF Notifying!TypeOK
<1>6. work'[r] = Notifying!NoWork /\ \A q \in Requests : q # r => work'[q] = work[q]
  BY <1>1, <1>2, OthersWork
<1>7. /\ Notifying!NoWork \in Notifying!Work /\ Notifying!NoWork.at = "idle"
      /\ Notifying!NoWork.row.code = Notifying!NoCode
  BY DEF Notifying!Work, Notifying!NoWork, Notifying!NoRow
<1>8. Notifying!TypeOK'
  <2>1. notifier' \in [Channels -> Notifying!Row \cup {Notifying!NoRow}] BY <1>1, <1>3, <1>4, <1>5
  <2>2. work' \in [Requests -> Notifying!Work] BY <1>1, <1>2, <1>7 DEF Notifying!TypeOK
  <2>3. QED BY <1>1, <1>2, <2>1, <2>2 DEF Notifying!TypeOK
<1>9. FoundRows' BY <1>6, <1>7 DEF NotifyInv, FoundRows
<1>10. ASSUME ~clashed' PROVE OneWriter'
  <2>1. OneWriter BY <1>1, <1>10 DEF NotifyInv
  <2>2. \A q \in Requests : ~Notifying!Writing(q)'
    BY <1>1, <1>6, <1>7, <2>1 DEF OneWriter, Notifying!Writing
  <2>3. Notifying!Defaults' \subseteq {n}
    BY <1>1, <1>5, <2>1 DEF OneWriter, Notifying!Defaults
  <2>4. QED BY <2>2, <2>3 DEF OneWriter
<1>11. OwnCodes'
  <2>1. \A m \in Channels : notifier'[m].code \in Draws => drawn[notifier'[m].code] = {m}
    BY <1>1, <1>2, <1>4, <1>5 DEF OwnCodes
  <2>2. \A q \in Requests : work'[q].row.code \in Draws =>
            work'[q].id = drawn[work'[q].row.code] /\ work'[q].id # {}
    BY <1>2, <1>6, <1>7 DEF OwnCodes, CodesDrawn
  <2>3. QED BY <1>1, <1>2, <2>1, <2>2 DEF OwnCodes
<1>12. SpentGone'
  <2>1. \A d \in spent, m \in Channels : notifier'[m].code # d
    BY <1>1, <1>2, <1>4, <1>5 DEF SpentGone
  <2>2. \A q \in Requests : Notifying!Writing(q)' => Notifying!Writing(q) /\ work'[q] = work[q]
    BY <1>6, <1>7 DEF Notifying!Writing
  <2>3. QED BY <1>1, <1>2, <2>1, <2>2 DEF SpentGone
<1>13. QED BY <1>1, <1>8, <1>9, <1>10, <1>11, <1>12 DEF NotifyInv, Notifying!CodeSpentOnce

LEMMA DrawDraws ==
  ASSUME NotifyInv, NEW n \in Channels, NEW d \in Draws, Notifying!Draw(n, d)
  PROVE  Drawing /\ drawn'[d] = {n} /\ drawn[d] = {}
BY DEF NotifyInv, Notifying!TypeOK, Notifying!Draw, Drawing

LEMMA NothingDrawn ==
  ASSUME NotifyInv, UNCHANGED drawn
  PROVE  Drawing
BY DEF NotifyInv, Notifying!TypeOK, Drawing

LEMMA CreateKeeps ==
  ASSUME CodesDrawn, NotifyInv, NEW r \in Requests, NEW n \in Channels,
         NEW c \in Draws \cup {Notifying!Unneeded}, Notifying!Create(r, n, c)
  PROVE  NotifyInv'
<1> DEFINE made(default) == [status |-> IF c = Notifying!Unneeded THEN "verified" ELSE "pending",
                             default |-> default, code |-> c]
<1>1. /\ Notifying!ClearDefault(r, n, made(TRUE)) \/ Notifying!SaveFound(r, n, made(FALSE))
      /\ UNCHANGED expired
  BY DEF Notifying!Create
<1>2. /\ made(TRUE) \in Notifying!Row /\ made(FALSE) \in Notifying!Row
      /\ made(TRUE).code = c /\ made(FALSE).code = c
  BY DEF Notifying!Row
<1>3. work[r].at = "idle" /\ work[r].row.code \notin Draws
  BY DEF Notifying!Create, NotifyInv, FoundRows, CodesDrawn
<1>4. Drawing /\ (c \in Draws => drawn'[c] = {n} /\ drawn[c] = {})
  <2>1. CASE c = Notifying!Unneeded
    BY <2>1, NothingDrawn DEF Notifying!Create, CodesDrawn
  <2>2. CASE c # Notifying!Unneeded BY <2>2, DrawDraws DEF Notifying!Create
  <2>3. QED BY <2>1, <2>2
<1> HIDE DEF made
<1>5. CASE Notifying!ClearDefault(r, n, made(TRUE))
  <2>1. Saved(r, n, made(TRUE), FALSE) BY <1>2, <1>3, <1>4, <1>5 DEF Saved, Notifying!ClearDefault
  <2>2. QED BY <1>1, <1>2, <1>4, <1>5, <2>1, ClearDefaultKeeps
<1>6. CASE Notifying!SaveFound(r, n, made(FALSE))
  <2>1. Saved(r, n, made(FALSE), FALSE) BY <1>2, <1>3, <1>4, <1>6 DEF Saved, Notifying!SaveFound
  <2>2. Notifying!Overwrite(r, n, made(FALSE)) BY <1>6 DEF Notifying!SaveFound
  <2>3. QED BY <1>1, <1>2, <1>4, <2>1, <2>2, OverwriteKeeps, FALSE \in BOOLEAN
<1>7. QED BY <1>1, <1>5, <1>6

(* A request that has read a row, or ends, has nothing to write. *)
LEMMA FindKeeps ==
  ASSUME CodesDrawn, NotifyInv, NEW r \in Requests,
         \/ \E n \in Channels : Notifying!Find(r, n) \/ Notifying!HandleTelegramUpdate(r, n)
         \/ Notifying!Rollback(r)
  PROVE  NotifyInv'
<1>1. PICK rec \in Notifying!Work :
           /\ work' = [work EXCEPT ![r] = rec]
           /\ \/ rec.at = "idle" /\ rec.row.code = Notifying!NoCode
              \/ /\ rec.at \in {"found", "bind"}
                 /\ \E n \in Channels : rec.id = {n} /\ rec.row = notifier[n] /\ notifier[n] \in Notifying!Row
  <2>1. CASE Notifying!Rollback(r)
    <3>1. /\ Notifying!NoWork.at = "idle" /\ Notifying!NoWork \in Notifying!Work
          /\ Notifying!NoWork.row.code = Notifying!NoCode
      BY DEF Notifying!NoWork, Notifying!Work, Notifying!NoRow
    <3>2. QED BY <2>1, <3>1 DEF Notifying!Rollback, Notifying!Goto
  <2>2. ASSUME NEW n \in Channels, NEW at \in {"found", "bind"}, notifier[n] # Notifying!NoRow,
               work' = [work EXCEPT ![r] = [Notifying!NoWork EXCEPT !.at = at, !.id = {n}, !.row = notifier[n]]]
        PROVE  \E rec \in Notifying!Work :
                   /\ work' = [work EXCEPT ![r] = rec]
                   /\ rec.at \in {"found", "bind"}
                   /\ rec.id = {n} /\ rec.row = notifier[n] /\ notifier[n] \in Notifying!Row
    <3>1. notifier[n] \in Notifying!Row BY <2>2, RowParts DEF NotifyInv
    <3>2. PICK rec : rec = [Notifying!NoWork EXCEPT !.at = at, !.id = {n}, !.row = notifier[n]]
      OBVIOUS
    <3>3. /\ rec.at = at /\ rec.id = {n} /\ rec.row = notifier[n] /\ rec \in Notifying!Work
      BY <3>1, <3>2 DEF Notifying!NoWork, Notifying!Work
    <3>4. QED BY <2>2, <3>1, <3>2, <3>3
  <2>3. CASE \E n \in Channels : Notifying!Find(r, n)
    BY <2>2, <2>3 DEF Notifying!Find, Notifying!Goto
  <2>4. CASE \E n \in Channels : Notifying!HandleTelegramUpdate(r, n)
    <3>1. PICK n \in Channels : Notifying!HandleTelegramUpdate(r, n) BY <2>4
    <3>2. notifier[n] # Notifying!NoRow
      <4>1. notifier[n].status = "pending"
        BY <3>1 DEF Notifying!HandleTelegramUpdate, Notifying!AwaitsCode
      <4>2. Notifying!NoRow.status = "absent" BY DEF Notifying!NoRow
      <4>3. QED BY <4>1, <4>2
    <3>3. QED BY <2>2, <3>1, <3>2 DEF Notifying!HandleTelegramUpdate, Notifying!Goto
  <2>5. QED BY <2>1, <2>3, <2>4
<1>2. UNCHANGED <<notifier, drawn, expired, overtaken, spent, respent, clashed>>
  BY DEF Notifying!Find, Notifying!Rollback, Notifying!HandleTelegramUpdate
<1>3. Notifying!TypeOK' BY <1>1, <1>2 DEF NotifyInv, Notifying!TypeOK
<1>4. work'[r] = rec /\ \A q \in Requests : q # r => work'[q] = work[q]
  BY <1>1, OthersWork DEF NotifyInv
<1>5. \A q \in Requests : Notifying!Writing(q)' => Notifying!Writing(q) /\ work'[q] = work[q]
  BY <1>1, <1>4 DEF Notifying!Writing
<1>6. OneWriter => OneWriter'
  <2>1. Notifying!Defaults' = Notifying!Defaults BY <1>2 DEF Notifying!Defaults
  <2>2. QED BY <1>5, <2>1 DEF OneWriter
<1>7. FoundRows' BY <1>1, <1>4 DEF NotifyInv, FoundRows
<1>8. OwnCodes'
  <2>1. OwnCodes BY DEF NotifyInv
  <2>2. rec.row.code \in Draws => rec.id = drawn[rec.row.code] /\ rec.id # {}
    BY <1>1, <2>1 DEF OwnCodes, CodesDrawn
  <2>3. QED BY <1>2, <1>4, <2>1, <2>2 DEF OwnCodes
<1>9. SpentGone' BY <1>2, <1>5 DEF NotifyInv, SpentGone
<1>10. QED BY <1>2, <1>3, <1>6, <1>7, <1>8, <1>9 DEF NotifyInv, Notifying!CodeSpentOnce

(* The owner's request, or the bot's, saves over the row it has read. *)
LEMMA FoundParts ==
  ASSUME NotifyInv, NEW r \in Requests, NEW n \in Channels,
         work[r].at \in {"found", "bind"}, work[r].id = {n}
  PROVE  /\ work[r].row \in Notifying!Row
         /\ work[r].row.code \in Draws => drawn[work[r].row.code] = {n}
BY DEF NotifyInv, FoundRows, OwnCodes

LEMMA SpendKeeps ==
  ASSUME CodesDrawn, NotifyInv, NEW r \in Requests, NEW n \in Channels,
         Notifying!Verify(r, n) \/ Notifying!Bind(r, n)
  PROVE  NotifyInv'
<1>1. /\ work[r].at \in {"found", "bind"} /\ work[r].id = {n} /\ UNCHANGED <<drawn, expired>>
      /\ Notifying!Spend(r, n)
  BY DEF Notifying!Verify, Notifying!Bind, Notifying!Found
<1>2. PICK row : row = Notifying!Verified(work[r].row) OBVIOUS
<1>3. row \in Notifying!Row /\ row.code = Notifying!NoCode
  BY <1>1, <1>2, FoundParts DEF Notifying!Verified, Notifying!Row
<1>4. row.code \notin Draws BY <1>3 DEF CodesDrawn
<1>5. Notifying!Overwrite(r, n, row) /\ Notifying!Overtakes(r, n, TRUE)
  BY <1>1, <1>2 DEF Notifying!Spend
<1>6. Saved(r, n, row, TRUE) BY <1>1, <1>4, <1>5 DEF Saved
<1>7. QED BY <1>1, <1>3, <1>5, <1>6, NothingDrawn, OverwriteKeeps, TRUE \in BOOLEAN

(* A save that leaves the code of the row that was read, or draws another.   *)
LEMMA SaveFoundKeeps ==
  ASSUME CodesDrawn, NotifyInv, NEW r \in Requests, NEW n \in Channels, NEW row \in Notifying!Row,
         work[r].at = "found", work[r].id = {n}, UNCHANGED expired, Drawing,
         \/ row.code = work[r].row.code
         \/ row.code \in Draws /\ drawn[row.code] = {} /\ drawn'[row.code] = {n},
         Notifying!SaveFound(r, n, row) \/ Notifying!ClearDefault(r, n, row)
  PROVE  NotifyInv'
<1>1. Notifying!Overtakes(r, n, FALSE) BY DEF Notifying!SaveFound, Notifying!ClearDefault
<1>2. row.code \in Draws =>
        /\ drawn'[row.code] = {n}
        /\ drawn[row.code] = {} \/ row.code = work[r].row.code
  BY FoundParts DEF Drawing
<1>3. Saved(r, n, row, FALSE) BY <1>1, <1>2 DEF Saved
<1>4. CASE Notifying!SaveFound(r, n, row)
  <2>1. Notifying!Overwrite(r, n, row) BY <1>4 DEF Notifying!SaveFound
  <2>2. QED BY <1>3, <2>1, OverwriteKeeps, FALSE \in BOOLEAN
<1>5. CASE Notifying!ClearDefault(r, n, row) BY <1>3, <1>5, ClearDefaultKeeps
<1>6. QED BY <1>4, <1>5

LEMMA UpdateKeeps ==
  ASSUME CodesDrawn, NotifyInv, NEW r \in Requests, NEW n \in Channels,
         \/ Notifying!Update(r, n) \/ Notifying!VerifyUnneeded(r, n) \/ Notifying!Test(r, n)
         \/ \E d \in Draws : Notifying!Renew(r, n, d)
  PROVE  NotifyInv'
<1>1. work[r].at = "found" /\ work[r].id = {n} /\ UNCHANGED expired
  BY DEF Notifying!Update, Notifying!VerifyUnneeded, Notifying!Test, Notifying!Renew, Notifying!Found
<1>2. work[r].row \in Notifying!Row BY <1>1, FoundParts
<1>3. CASE Notifying!Update(r, n)
  <2>1. PICK status \in {work[r].row.status, "verified", "disabled"} :
            \/ Notifying!ClearDefault(r, n, [work[r].row EXCEPT !.status = status, !.default = TRUE])
            \/ Notifying!SaveFound(r, n, [work[r].row EXCEPT !.status = status, !.default = FALSE])
    BY <1>3 DEF Notifying!Update
  <2>2. PICK row : /\ \E default \in BOOLEAN : row = [work[r].row EXCEPT !.status = status, !.default = default]
                   /\ Notifying!SaveFound(r, n, row) \/ Notifying!ClearDefault(r, n, row)
    BY <2>1
  <2>3. status \in {"pending", "verified", "disabled"} BY <1>2 DEF Notifying!Row
  <2>4. row \in Notifying!Row /\ row.code = work[r].row.code
    BY <1>2, <2>2, <2>3 DEF Notifying!Row
  <2>5. Drawing BY <1>3, NothingDrawn DEF Notifying!Update
  <2>6. QED BY <1>1, <2>2, <2>4, <2>5, SaveFoundKeeps
<1>4. CASE Notifying!VerifyUnneeded(r, n)
  <2>1. PICK row : row = [work[r].row EXCEPT !.status = "verified"] OBVIOUS
  <2>2. row \in Notifying!Row /\ row.code = work[r].row.code BY <1>2, <2>1 DEF Notifying!Row
  <2>3. Drawing BY <1>4, NothingDrawn DEF Notifying!VerifyUnneeded
  <2>4. Notifying!SaveFound(r, n, row) BY <1>4, <2>1 DEF Notifying!VerifyUnneeded
  <2>5. QED BY <1>1, <2>2, <2>3, <2>4, SaveFoundKeeps
<1>5. CASE Notifying!Test(r, n)
  <2>1. Drawing BY <1>5, NothingDrawn DEF Notifying!Test
  <2>2. QED BY <1>1, <1>2, <1>5, <2>1, SaveFoundKeeps DEF Notifying!Test
<1>6. ASSUME NEW d \in Draws, Notifying!Renew(r, n, d) PROVE NotifyInv'
  <2>1. PICK row : row = [work[r].row EXCEPT !.status = "pending", !.code = d] OBVIOUS
  <2>2. row \in Notifying!Row /\ row.code = d BY <1>2, <2>1 DEF Notifying!Row
  <2>3. Drawing /\ drawn'[d] = {n} /\ drawn[d] = {} BY <1>6, DrawDraws DEF Notifying!Renew
  <2>4. Notifying!SaveFound(r, n, row) BY <1>6, <2>1 DEF Notifying!Renew
  <2>5. QED BY <1>1, <2>2, <2>3, <2>4, SaveFoundKeeps
<1>7. QED BY <1>3, <1>4, <1>5, <1>6

LEMMA DeleteKeeps ==
  ASSUME CodesDrawn, NotifyInv, NEW r \in Requests, NEW n \in Channels, Notifying!Delete(r, n)
  PROVE  NotifyInv'
<1>1. /\ notifier' = [notifier EXCEPT ![n] = Notifying!NoRow] /\ Notifying!Free(n)
      /\ work' = [work EXCEPT ![r] = Notifying!NoWork]
      /\ UNCHANGED <<drawn, expired, overtaken, spent, respent, clashed>>
  BY DEF Notifying!Delete, Notifying!Goto
<1>2. ~Notifying!NoRow.default /\ Notifying!NoRow.code \notin Draws
  BY DEF CodesDrawn, Notifying!NoRow
<1>3. /\ overtaken' \subseteq Draws /\ spent' \subseteq Draws /\ respent' \subseteq Draws
      /\ Notifying!CodeSpentOnce' /\ clashed' \in BOOLEAN
  BY <1>1 DEF NotifyInv, Notifying!TypeOK, Notifying!CodeSpentOnce
<1>4. Drawing BY <1>1, NothingDrawn
<1>5. QED BY <1>1, <1>2, <1>3, <1>4, RowWritten

LEMMA NextNotifies == CodesDrawn /\ NotifyInv /\ (Notifying!Next \/ UNCHANGED notifyVars) => NotifyInv'
<1> SUFFICES ASSUME CodesDrawn, NotifyInv, Notifying!Next \/ UNCHANGED notifyVars PROVE NotifyInv'
  OBVIOUS
<1>1. CASE UNCHANGED notifyVars \/ \E d \in Draws : Notifying!Expire(d)
  <2>1. /\ UNCHANGED <<notifier, work, drawn, overtaken, spent, respent, clashed>>
        /\ expired' \subseteq Draws
    BY <1>1 DEF notifyVars, Notifying!Expire, NotifyInv, Notifying!TypeOK
  <2>2. Notifying!TypeOK' BY <2>1 DEF NotifyInv, Notifying!TypeOK
  <2>3. FoundRows' BY <2>1 DEF NotifyInv, FoundRows
  <2>4. OneWriter => OneWriter' BY <2>1 DEF OneWriter, Notifying!Defaults, Notifying!Writing
  <2>5. OwnCodes' /\ SpentGone' BY <2>1 DEF NotifyInv, OwnCodes, SpentGone, Notifying!Writing
  <2>6. QED BY <2>1, <2>2, <2>3, <2>4, <2>5 DEF NotifyInv, Notifying!CodeSpentOnce
<1>2. CASE \E r \in Requests, n \in Channels :
              \/ Notifying!Update(r, n) \/ Notifying!VerifyUnneeded(r, n) \/ Notifying!Test(r, n)
              \/ \E d \in Draws : Notifying!Renew(r, n, d)
  BY <1>2, UpdateKeeps
<1>3. CASE \E r \in Requests, n \in Channels, d \in Draws \cup {Notifying!Unneeded} : Notifying!Create(r, n, d)
  BY <1>3, CreateKeeps
<1>4. CASE \E r \in Requests :
              \/ \E n \in Channels : Notifying!Find(r, n) \/ Notifying!HandleTelegramUpdate(r, n)
              \/ Notifying!Rollback(r)
  BY <1>4, FindKeeps
<1>5. CASE \E r \in Requests, n \in Channels : Notifying!Delete(r, n) BY <1>5, DeleteKeeps
<1>6. CASE \E r \in Requests, n \in Channels : Notifying!Commit(r, n) BY <1>6, CommitKeeps
<1>7. CASE \E r \in Requests, n \in Channels : Notifying!Verify(r, n) \/ Notifying!Bind(r, n)
  BY <1>7, SpendKeeps
<1>8. QED BY <1>1, <1>2, <1>3, <1>4, <1>5, <1>6, <1>7 DEF Notifying!Next

-----------------------------------------------------------------------------
(* What holds of every history of requests.                                  *)

(* A component that is explored is in a state of its invariant. *)
ResettingInv == part = "resetting" => LinkInv
ConnectingInv == part = "connecting" => ConnectInv
LimitingInv == part = "limiting" => WindowInv
NotifyingInv == part = "notifying" => NotifyInv

LEMMA LinksAndStates ==
  ASSUME ResettingInv, ConnectingInv
  PROVE  SpentOnce
BY DEF ResettingInv, ConnectingInv, LinkInv, SpentProperly, ConnectInv, SpentOnce, Resetting!LinkSpentOnce,
       Connecting!StateSpentOnce

LEMMA AlwaysConnectInv == AccessSpec => []ConnectingInv
<1>1. AccessInit => ConnectingInv BY InitConnects DEF AccessInit, ConnectingInv
<1>2. ConnectingInv /\ [AccessNext]_<<part, vars, resetVars, connectVars, limitVars, notifyVars>>
      => ConnectingInv'
  BY EachComponent, NextConnects DEF ConnectingInv
<1>3. QED BY <1>1, <1>2, PTL DEF AccessSpec

(* ResetPassword of auth_usecase.go and Consume of oauth_state_cache.go: a    *)
(* link sets one password at most unless it could not be deleted or two       *)
(* requests looked it up together, and one callback at most goes on with a    *)
(* state, for any number of requests, links and states.                       *)
THEOREM LinksAndStatesSpentOnce == AccessSpec => []SpentOnce
<1>1. AccessInit => ResettingInv BY InitLinks DEF AccessInit, ResettingInv
<1>2. ResettingInv /\ [AccessNext]_<<part, vars, resetVars, connectVars, limitVars, notifyVars>>
      => ResettingInv'
  BY EachComponent, NextLinks DEF ResettingInv
<1>3. ResettingInv /\ ConnectingInv => SpentOnce BY LinksAndStates
<1>4. QED BY <1>1, <1>2, <1>3, AlwaysConnectInv, PTL DEF AccessSpec

(* connect of mail_account_usecase.go: whichever consents end in which order, *)
(* a mailbox keeps the address it was built from and its tokens open that     *)
(* address, for any number of callbacks, mailboxes, addresses and providers.  *)
THEOREM TokensAlwaysOpenMailbox == AccessSpec => []TokensOpenMailbox
<1>1. ConnectingInv => TokensOpenMailbox
  BY DEF ConnectingInv, ConnectInv, TokensOpen, TokensOpenMailbox, Connecting!TokensOpenMailbox
<1>2. QED BY <1>1, AlwaysConnectInv, PTL

(* connect of mail_account_usecase.go, and the saves of syncs, checks and      *)
(* requests: a deleted mailbox is there again only if one of them had read it *)
(* when it was deleted.                                                       *)
THEOREM DeletedAlwaysStaysGone == AccessSpec => []DeletedStaysGone
<1>1. ConnectingInv => DeletedStaysGone
  BY DEF ConnectingInv, ConnectInv, DeletedStaysGone, Connecting!DeletedStaysGone
<1>2. QED BY <1>1, AlwaysConnectInv, PTL

(* Allow of rate_limiter.go: no more than the limit are let through in a     *)
(* window, but for the hit that began it, and the window ends unless an      *)
(* error lost its Expire, for any limit and any number of hits at once.      *)
THEOREM WindowAlwaysHolds == AccessSpec => []WindowHolds
<1>0. Limited BY AccessAssumption DEF Limited
<1>1. AccessInit => LimitingInv BY <1>0, InitWindow DEF AccessInit, LimitingInv
<1>2. LimitingInv /\ [AccessNext]_<<part, vars, resetVars, connectVars, limitVars, notifyVars>>
      => LimitingInv'
  BY <1>0, EachComponent, NextWindow DEF LimitingInv
<1>3. LimitingInv => WindowHolds BY DEF LimitingInv, WindowInv, WindowHolds
<1>4. QED BY <1>1, <1>2, <1>3, PTL DEF AccessSpec

LEMMA AlwaysNotifyInv == AccessSpec => []NotifyingInv
<1>0. CodesDrawn BY AccessAssumption DEF CodesDrawn
<1>1. AccessInit => NotifyingInv BY <1>0, InitNotifies DEF AccessInit, NotifyingInv
<1>2. NotifyingInv /\ [AccessNext]_<<part, vars, resetVars, connectVars, limitVars, notifyVars>>
      => NotifyingInv'
  BY <1>0, EachComponent, NextNotifies DEF NotifyingInv
<1>3. QED BY <1>1, <1>2, PTL DEF AccessSpec

LEMMA SameCardinality == \A S : Notifying!Cardinality(S) = Cardinality(S)
BY DEF Cardinality, Notifying!Cardinality

(* ClearDefault and Save of notifier_usecase.go: an owner has one default     *)
(* notifier at most, unless two requests made one at once or a save brought   *)
(* one back, for any number of requests and notifiers.                        *)
THEOREM OneDefaultAlways == AccessSpec => []OneDefault
<1>1. ASSUME NotifyInv PROVE Notifying!OneDefault
  <2>1. CASE clashed BY <2>1 DEF Notifying!OneDefault
  <2>2. CASE OneWriter
    <3>1. CASE Notifying!Defaults = {}
      <4>1. Cardinality(Notifying!Defaults) = 0 BY <3>1, FS_EmptySet
      <4>2. QED BY <4>1, SameCardinality DEF Notifying!OneDefault
    <3>2. CASE Notifying!Defaults # {}
      <4>1. PICK n : Notifying!Defaults = {n} BY <2>2, <3>2 DEF OneWriter
      <4>2. Cardinality({n}) = 1 BY FS_Singleton
      <4>3. QED BY <4>1, <4>2, SameCardinality DEF Notifying!OneDefault
    <3>3. QED BY <3>1, <3>2
  <2>3. QED BY <1>1, <2>1, <2>2 DEF NotifyInv
<1>2. NotifyingInv => OneDefault BY <1>1 DEF NotifyingInv, OneDefault
<1>3. QED BY <1>2, AlwaysNotifyInv, PTL

(* Verify and HandleTelegramUpdate of notifier_usecase.go: a code verifies    *)
(* its notifier once, unless the save of a row that was read with the code    *)
(* came after the notifier had stopped waiting for it, for any number of      *)
(* requests, notifiers and codes, however many messages guess them.           *)
THEOREM CodeAlwaysSpentOnce == AccessSpec => []CodeSpentOnce
<1>1. NotifyingInv => CodeSpentOnce BY DEF NotifyingInv, NotifyInv, CodeSpentOnce, Notifying!CodeSpentOnce
<1>2. QED BY <1>1, AlwaysNotifyInv, PTL
=============================================================================
