---------------------------- MODULE AccountPages ----------------------------
(***************************************************************************)
(* The pages for billing, player branding, settings and the team           *)
(* (app/dashboard/billing, branding, settings, team).  Amounts of money    *)
(* are counted in payments.  The toasts of billing, settings and team go   *)
(* to a second library whose Toaster no layout mounts: nobody sees them,   *)
(* and they are left out.                                                  *)
(***************************************************************************)
EXTENDS Browser

-----------------------------------------------------------------------------
(* billing/page.tsx *)

FreshBilling == [id |-> 0, open |-> FALSE, balance |-> 0]

(* loadData: the subscription first, and the invoices after it, whatever   *)
(* became of it, unless it was lost.                                       *)
SubscriptionLoaded(c) ==
    /\ c.op = "getBilling"
    /\ \E r \in Outcomes(c) :
          /\ local' = IF c.mounted /\ r.status = 200
                      THEN [local EXCEPT !.balance = r.n] ELSE local
          /\ calls' = LET cs == calls \ {c}
                      IN  IF r.status = 0 THEN cs
                          ELSE cs \cup {[Call(cs, "getInvoices", <<>>, c.by, 0, 0)
                                         EXCEPT !.mounted = c.mounted]}
    /\ UNCHANGED <<shell, cache, server, clicks, toastVars>>

InvoicesLoaded(c) ==
    /\ c.op = "getInvoices"
    /\ calls' = calls \ {c}
    /\ UNCHANGED <<shell, local, cache, server, clicks, toastVars>>

BillingOffer == IF local.open THEN {"close", "pay"} ELSE {"open", "portal"}

BillingInput ==
    /\ On("billing")
    /\ BillingOffer \cap {"open", "close"} # {}
    /\ local' = [local EXCEPT !.open = ~@]
    /\ UNCHANGED <<shell, net, clicks, toastVars>>

(* The new balance is shown before the answer. *)
handleTopUp_Shows ==
    /\ On("billing") /\ Click /\ "pay" \in BillingOffer /\ Room
    /\ local' = [local EXCEPT !.balance = @ + 1]
    /\ calls' = Send("postFunds", 0)
    /\ UNCHANGED <<shell, cache, server, toastVars>>

(* Nothing keeps the form from being sent again while a payment is out. *)
handleTopUp ==
    /\ On("billing") /\ Click /\ "pay" \in BillingOffer /\ Room
    /\ calls' = Send("postFunds", 0)
    /\ UNCHANGED <<shell, local, cache, server, toastVars>>

(* The answer carries the new balance; a failure leaves the dialog open. *)
ToppedUp(c) ==
    /\ c.op = "postFunds"
    /\ \E r \in Outcomes(c) :
          local' = IF c.mounted /\ r.status = 200
                   THEN [local EXCEPT !.balance = r.n, !.open = FALSE] ELSE local
    /\ calls' = calls \ {c}
    /\ UNCHANGED <<shell, cache, server, clicks, toastVars>>

handlePortalRedirect ==
    /\ On("billing") /\ Click /\ "portal" \in BillingOffer /\ Room
    /\ calls' = Send("postPortal", 0)
    /\ UNCHANGED <<shell, local, cache, server, toastVars>>

PortalFails(c) ==
    /\ c.op = "postPortal"
    /\ \E r \in Outcomes(c) : r.status # 200
    /\ calls' = calls \ {c}
    /\ UNCHANGED <<shell, local, cache, server, clicks, toastVars>>

-----------------------------------------------------------------------------
(* branding/page.tsx *)

FreshBranding == [id |-> 0, pro |-> "unknown", asset |-> FALSE, saving |-> FALSE,
                  uploading |-> FALSE]

(* loadData: 403 is the answer to an account without the Pro plan. *)
BrandingLoaded(c) ==
    /\ c.op = "getBranding"
    /\ \E r \in Outcomes(c) :
          /\ local' = IF ~c.mounted THEN local
                      ELSE [local EXCEPT !.pro = IF r.status = 200 THEN "yes"
                                                 ELSE IF r.status = 403 THEN "no" ELSE @]
          /\ IF r.status \in {0, 401, 429} THEN toast("destructive") ELSE UNCHANGED toastVars
    /\ calls' = calls \ {c}
    /\ UNCHANGED <<shell, cache, server, clicks>>

(* The upgrade screen, or the form. *)
BrandingOffer ==
    IF local.pro = "no" THEN {"billing"}
    ELSE {"file"} \cup (IF local.saving THEN {} ELSE {"save"})

handleSave ==
    /\ On("branding") /\ Click /\ "save" \in BrandingOffer /\ Room
    /\ local' = [local EXCEPT !.saving = TRUE]
    /\ calls' = Send("putBranding", 0)
    /\ UNCHANGED <<shell, cache, server, toastVars>>

BrandingSaved(c) ==
    /\ c.op = "putBranding"
    /\ \E r \in Outcomes(c) : toast(IF r.status = 200 THEN "plain" ELSE "destructive")
    /\ local' = IF c.mounted THEN [local EXCEPT !.saving = FALSE] ELSE local
    /\ calls' = calls \ {c}
    /\ UNCHANGED <<shell, cache, server, clicks>>

handleFileUpload ==
    /\ On("branding") /\ Click /\ "file" \in BrandingOffer /\ Room
    /\ local' = [local EXCEPT !.uploading = TRUE]
    /\ calls' = Send("postAsset", 0)
    /\ UNCHANGED <<shell, cache, server, toastVars>>

(* The answer is not read: any answer starts the timer of the success. *)
AssetPosted(c) ==
    /\ c.op = "postAsset"
    /\ \E r \in Outcomes(c) :
          IF r.status = 0
          THEN /\ calls' = calls \ {c}
               /\ local' = IF c.mounted THEN [local EXCEPT !.uploading = FALSE] ELSE local
               /\ toast("destructive")
          ELSE /\ calls' = (calls \ {c}) \cup {[c EXCEPT !.op = "assetTimer", !.reply = NoReply]}
               /\ UNCHANGED <<local, toastVars>>
    /\ UNCHANGED <<shell, cache, server, clicks>>

AssetTimer(c) ==
    /\ c.op = "assetTimer"
    /\ calls' = calls \ {c}
    /\ local' = IF c.mounted THEN [local EXCEPT !.asset = TRUE, !.uploading = FALSE] ELSE local
    /\ toast("plain")
    /\ UNCHANGED <<shell, cache, server, clicks>>

-----------------------------------------------------------------------------
(* settings/page.tsx: nothing is sent. *)

FreshSettings == [id |-> 0, saving |-> FALSE, step |-> 0, confirmed |-> FALSE]

SettingsOffer ==
    (IF local.saving THEN {} ELSE {"save"})
    \cup (IF local.step = 0 THEN {"delete"}
          ELSE {"type", "cancel"} \cup (IF local.confirmed THEN {"confirm"} ELSE {}))

handleSaveAccountName ==
    /\ On("settings") /\ Click /\ "save" \in SettingsOffer /\ Room
    /\ local' = [local EXCEPT !.saving = TRUE]
    /\ calls' = Send("nameTimer", 0)
    /\ UNCHANGED <<shell, cache, server, toastVars>>

NameTimer(c) ==
    /\ c.op = "nameTimer"
    /\ calls' = calls \ {c}
    /\ local' = IF c.mounted THEN [local EXCEPT !.saving = FALSE] ELSE local
    /\ UNCHANGED <<shell, cache, server, clicks, toastVars>>

(* confirmed: what was typed is the name of the workspace. *)
handleDeleteAccount ==
    /\ On("settings")
    /\ \/ /\ "delete" \in SettingsOffer
          /\ local' = [local EXCEPT !.step = 1]
       \/ /\ "confirm" \in SettingsOffer /\ local.step = 1
          /\ local' = [local EXCEPT !.step = 2]
       \/ /\ "type" \in SettingsOffer
          /\ local' = [local EXCEPT !.confirmed = ~@]
       \/ /\ "cancel" \in SettingsOffer
          /\ local' = [local EXCEPT !.step = 0, !.confirmed = FALSE]
    /\ UNCHANGED <<shell, net, clicks, toastVars>>

-----------------------------------------------------------------------------
(* team/page.tsx: an invitation is a row of the page. *)

FreshTeam == [id |-> 0, open |-> FALSE, members |-> 0]

TeamOffer == IF local.open THEN {"close", "invite"} ELSE {"open"}

handleInvite ==
    /\ On("team") /\ Click /\ "invite" \in TeamOffer
    /\ local' = [local EXCEPT !.members = @ + 1, !.open = FALSE]
    /\ UNCHANGED <<shell, net, toastVars>>

TeamInput ==
    /\ On("team")
    /\ TeamOffer \cap {"open", "close"} # {}
    /\ local' = [local EXCEPT !.open = ~@]
    /\ UNCHANGED <<shell, net, clicks, toastVars>>

AccountPagesNext ==
    \/ BillingInput \/ handleTopUp \/ handlePortalRedirect
    \/ \E c \in calls :
          \/ SubscriptionLoaded(c) \/ InvoicesLoaded(c) \/ ToppedUp(c) \/ PortalFails(c)
          \/ BrandingLoaded(c) \/ BrandingSaved(c) \/ AssetPosted(c) \/ AssetTimer(c)
          \/ NameTimer(c)
    \/ handleSave \/ handleFileUpload
    \/ handleSaveAccountName \/ handleDeleteAccount
    \/ handleInvite \/ TeamInput
=============================================================================
