----------------------------- MODULE Donations -----------------------------
(***************************************************************************)
(* Donations and their receipts,                                           *)
(* src/src/modules/donations/donations.service.ts: a manual donation waits *)
(* for an administrator, an online one is verified as it is created, and a *)
(* verified one gets a receipt in later statements. Amounts are in paise.  *)
(***************************************************************************)
EXTENDS Requests

DonationStatuses == {"PENDING", "VERIFIED", "REJECTED"}

\* The ids of donations that exist are not those of donations to come.
ASSUME DonationAssumption ==
    /\ \A c \in Calls : Input[c].op = "campaign" => Input[c].active \in BOOLEAN
    /\ \A w \in Scenarios : /\ w.donations \in [DOMAIN w.donations -> DonationStatuses]
                            /\ DOMAIN w.donations \intersect Calls = {}
                            /\ w.campaign \in BOOLEAN

VARIABLES donations,     \* donations[d]: status; ids are the calls that made them
          receipts,      \* donations with a receipt row
          campaign,      \* isActive of the online campaign
          contested,     \* history: donations with two decisions at once
          receiptNumber  \* history: receipt numbers taken

donationVars == <<donations, receipts, campaign, contested, receiptNumber>>

DonationsInit(w) ==
    /\ donations = w.donations
    /\ receipts = {}
    /\ campaign = w.campaign
    /\ contested = {} /\ receiptNumber = 0

\* assertSplitsMatchTotal
SplitsMatch(c) == SumFunction(sent[c].splits) = sent[c].total

\* submitManualDonation: the sum is checked first, then one transaction
\* creates the donation and its splits.
SubmitManualDonation(c) ==
    /\ pc[c] = "start"
    /\ \/ /\ SplitsMatch(c)
          /\ donations' = Put(donations, c, "PENDING")
          /\ Goto(c, "done")
       \/ /\ ~SplitsMatch(c)
          /\ Goto(c, "refused")
          /\ UNCHANGED donations
    /\ Forget /\ UNCHANGED <<receipts, campaign, contested, receiptNumber>>

\* submitPlatformDonation
CampaignRead(c) ==
    /\ Move(c, "start", IF campaign THEN "create" ELSE "refused")
    /\ Forget /\ UNCHANGED donationVars

CreateVerified(c) ==
    /\ Move(c, "create", "number")
    /\ donations' = Put(donations, c, "VERIFIED")
    /\ Forget /\ UNCHANGED <<receipts, campaign, contested, receiptNumber>>

\* updateCampaignConfig
SetCampaign(c) ==
    /\ Move(c, "start", "done")
    /\ campaign' = sent[c].active
    /\ Forget /\ UNCHANGED <<donations, receipts, contested, receiptNumber>>

-----------------------------------------------------------------------------
(* decideDonation *)

Target(c) == IF Op(c) = "donateOnline" THEN c ELSE sent[c].donation
Deciding(d) == {c \in Open : Op(c) = "decide" /\ sent[c].donation = d}

\* Mutation: a donation may be decided again.
DecideAgainRead(c) ==
    LET d == sent[c].donation IN
    /\ d \in DOMAIN donations
    /\ Move(c, "start", "decide")
    /\ contested' = contested \union (IF Deciding(d) # {} THEN {d} ELSE {})
    /\ Forget /\ UNCHANGED <<donations, receipts, campaign, receiptNumber>>

DecideRead(c) ==
    LET d == sent[c].donation IN
    /\ d \in DOMAIN donations
    /\ Move(c, "start", IF donations[d] = "PENDING" THEN "decide" ELSE "refused")
    /\ contested' = contested \union (IF Deciding(d) # {} THEN {d} ELSE {})
    /\ Forget /\ UNCHANGED <<donations, receipts, campaign, receiptNumber>>

\* The status is written by id.
DecideWrite(c) ==
    LET word == IF sent[c].verify THEN "VERIFIED" ELSE "REJECTED" IN
    /\ Move(c, "decide", IF sent[c].verify THEN "number" ELSE "done")
    /\ donations' = [donations EXCEPT ![sent[c].donation] = word]
    /\ Forget /\ UNCHANGED <<receipts, campaign, contested, receiptNumber>>

-----------------------------------------------------------------------------
(* issueDonationReceipt *)

\* The number is taken in a transaction of its own, before the receipt exists.
ReceiptNumber(c) ==
    /\ Move(c, "number", "receipt")
    /\ receiptNumber' = receiptNumber + 1
    /\ Forget /\ UNCHANGED <<donations, receipts, campaign, contested>>

\* Mutation: the receipt of a manual donation is left to the next request.
ReceiptForgotten(c) ==
    /\ Move(c, "receipt", "done")
    /\ Forget /\ UNCHANGED donationVars

\* donationId is unique: a second receipt fails.
ReceiptCreate(c) ==
    /\ pc[c] = "receipt"
    /\ \/ /\ Target(c) \in receipts
          /\ Goto(c, "failed")
          /\ UNCHANGED receipts
       \/ /\ Target(c) \notin receipts
          /\ receipts' = receipts \union {Target(c)}
          /\ Goto(c, "done")
    /\ Forget /\ UNCHANGED <<donations, campaign, contested, receiptNumber>>

DonationStep(c) ==
    \/ Op(c) = "donate" /\ SubmitManualDonation(c)
    \/ Op(c) = "campaign" /\ SetCampaign(c)
    \/ Op(c) = "donateOnline" /\ (CampaignRead(c) \/ CreateVerified(c))
    \/ Op(c) = "decide" /\ (DecideRead(c) \/ DecideWrite(c))
    \/ Op(c) \in {"donateOnline", "decide"} /\ (ReceiptNumber(c) \/ ReceiptCreate(c))

-----------------------------------------------------------------------------
(* Properties *)

DonationTypeOK ==
    /\ \A d \in DOMAIN donations : donations[d] \in DonationStatuses
    /\ receipts \subseteq DOMAIN donations
    /\ campaign \in BOOLEAN
    /\ receiptNumber >= Cardinality(receipts)

\* donations.service.ts:90, 110-115: a receipt is for a verified donation,
\* through every order of decisions, retries and crashes, unless two decisions
\* on it were under way at the same time.
ReceiptIsForVerified ==
    \A d \in receipts \ contested : donations[d] = "VERIFIED"

\* donations.service.ts:110-115, 151-157: a verified donation gets its receipt,
\* unless the request that verified it died.
VerifiedGetsReceipt ==
    []<>(\A d \in DOMAIN donations :
            donations[d] = "VERIFIED" => d \in receipts \/ Died)
=============================================================================
