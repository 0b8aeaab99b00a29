----------------------------- MODULE AlertDialog -----------------------------
(***************************************************************************)
(* The alert settings dialog of one browser tab                            *)
(* (frontend/src/features/loads/components/AlertSettingsDialog.tsx) with   *)
(* the query cache and the mutation behind it                              *)
(* (frontend/src/hooks/useAlerts.ts), against a server whose settings other*)
(* operators change too.  Requests and answers overlap, an answer may come *)
(* after the client gave up (lib/api.ts: 15s), and the dialog may be closed*)
(* and opened again while a save is under way.                             *)
(*                                                                         *)
(* TanStack Query is external: reset() detaches the mutation, whose own    *)
(* onSuccess still writes the cache while the callbacks given to mutate do *)
(* not run any more.  The server side is AlertConfigApply, one step here.  *)
(***************************************************************************)
EXTENDS AlertOverrides, FiniteSets

CONSTANTS NoView,        \* nothing is cached
          NoForm,        \* the form is null
          Typed,         \* values an operator types into each field of the form
          URLs,          \* webhook URLs an operator types
          OtherPatches,  \* patches other operators save
          RatioStep,     \* the form shows a ratio in multiples of this (0.0001)
          Saves          \* bound: saves of this tab that are under way at a time

FormFields == Fields \ {"webhookUrl"}

ASSUME DialogAssumption ==
    /\ \A p \in OtherPatches : IsOverride(p)
    /\ \A f \in FormFields : Typed[f] \subseteq FieldValues[f]
    /\ RatioStep \in Nat \ {0}
    /\ IsFiniteSet(Saves)

VARIABLES override,   \* Settings.override on the server
          cache,      \* the cached AlertConfigView
          get,        \* the GET under way: its stage, and the view it brings
          open,       \* the dialog is open
          form,       \* FormState
          put,        \* the saves under way
          testing     \* testAlert.isPending

dialogVars == <<override, cache, get, open, form, put, testing>>

-----------------------------------------------------------------------------
(* Conversions *)

\* The AlertConfigView of an override; the URL itself does not leave the server.
ViewOf(o) == [config |-> [f \in FormFields |-> Effective(o)[f]],
              webhookConfigured |-> Effective(o)["webhookUrl"] # "",
              overridden |-> Overridden(o)]

\* Math.round(ratio * 10000) / 100
Rounded(ratio) == ((2 * ratio + RatioStep) \div (2 * RatioStep)) * RatioStep

toFormState(view) ==
    [values |-> [f \in FormFields |-> IF f = "errorRowsRatio" THEN Rounded(view.config[f])
                                      ELSE view.config[f]],
     webhookUrl |-> "", clearWebhook |-> FALSE]

\* Mutant: the URL of the form is always sent.
toPatchWithURL(fm) ==
    [f \in Fields |-> IF f = "webhookUrl" THEN fm.webhookUrl ELSE fm.values[f]]

\* The whole form is the patch; the URL only when it was typed or is to go.
toPatch(fm) ==
    [f \in Fields |-> IF f # "webhookUrl" THEN fm.values[f]
                      ELSE IF fm.clearWebhook THEN ""
                      ELSE IF fm.webhookUrl # "" THEN fm.webhookUrl ELSE Nil]

NoGet == [stage |-> "none", view |-> NoView]

NoSave == [stage |-> "free", attached |-> FALSE, patch |-> NoOverride, reset |-> FALSE,
         thenTest |-> FALSE, reply |-> NoView]

\* updateConfig.isPending
saving == \E s \in Saves : put[s].attached

busy == saving \/ testing

\* updateConfig.reset()
Detached == [s \in Saves |-> [put[s] EXCEPT !.attached = FALSE]]

-----------------------------------------------------------------------------
(* Actions *)

DialogInit == /\ override = NoOverride
              /\ cache = NoView
              /\ get = NoGet
              /\ open = FALSE
              /\ form = NoForm
              /\ put = [s \in Saves |-> NoSave]
              /\ testing = FALSE

\* Another operator's save.
OtherPut == /\ \E p \in OtherPatches : Validate(p) /\ override' = Merge(override, p)
            /\ UNCHANGED <<cache, get, open, form, put, testing>>

\* useAlertConfig fetches: on mount, when stale, on focus, and whenever a test
\* alert invalidates every key that starts with "alerts".
Fetch == /\ get = NoGet
         /\ get' = [stage |-> "sent", view |-> NoView]
         /\ UNCHANGED <<override, cache, open, form, put, testing>>

FetchServe == /\ get.stage = "sent"
              /\ get' = [stage |-> "served", view |-> ViewOf(override)]
              /\ UNCHANGED <<override, cache, open, form, put, testing>>

\* Mutant: the form follows the cache.
FetchDoneSyncs == /\ get.stage = "served"
                  /\ cache' = get.view
                  /\ form' = IF open THEN toFormState(get.view) ELSE form
                  /\ get' = NoGet
                  /\ UNCHANGED <<override, open, put, testing>>

\* The answer goes to the cache; the form is not touched.
FetchDone == /\ get.stage = "served"
             /\ cache' = get.view
             /\ get' = NoGet
             /\ UNCHANGED <<override, open, form, put, testing>>

FetchFails == /\ get # NoGet
              /\ get' = NoGet
              /\ UNCHANGED <<override, cache, open, form, put, testing>>

\* openChange(true): the form is filled from the cache, if there is a view.
OpenDialog == /\ ~open
              /\ open' = TRUE
              /\ form' = IF cache = NoView THEN NoForm ELSE toFormState(cache)
              /\ put' = Detached
              /\ UNCHANGED <<override, cache, get, testing>>

\* openChange(false)
CloseDialog == /\ open
               /\ open' = FALSE
               /\ form' = NoForm
               /\ put' = Detached
               /\ UNCHANGED <<override, cache, get, testing>>

Editing == open /\ form # NoForm

Edit(f) == /\ Editing
           /\ \E v \in Typed[f] : form' = [form EXCEPT !.values[f] = v]
           /\ UNCHANGED <<override, cache, get, open, put, testing>>

EditURL == /\ Editing
           /\ ~form.clearWebhook
           /\ \E u \in URLs \cup {""} : form' = [form EXCEPT !.webhookUrl = u]
           /\ UNCHANGED <<override, cache, get, open, put, testing>>

\* The button is shown when the cached view has a webhook.
ToggleClear == /\ Editing
               /\ cache.webhookConfigured
               /\ form' = [form EXCEPT !.clearWebhook = ~@, !.webhookUrl = ""]
               /\ UNCHANGED <<override, cache, get, open, put, testing>>

Mutate(patch, reset, thenTest) ==
    /\ ~busy
    /\ \E s \in Saves : /\ put[s] = NoSave
                        /\ put' = [put EXCEPT ![s] = [stage |-> "sent", attached |-> TRUE,
                                                      patch |-> patch, reset |-> reset,
                                                      thenTest |-> thenTest,
                                                      reply |-> NoView]]
    /\ UNCHANGED <<override, cache, get, open, form, testing>>

\* "Save", or "Save and send test"
Save == Editing /\ \E thenTest \in BOOLEAN : Mutate(toPatch(form), FALSE, thenTest)

\* The button is enabled when the cached view has overrides.
ResetToEnv == /\ open
              /\ cache # NoView
              /\ cache.overridden # {}
              /\ Mutate(NoOverride, TRUE, FALSE)

\* The server handles a save that is waiting for its answer.
PutServe(s) ==
    /\ put[s].stage = "sent"
    /\ IF Validate(put[s].patch)
       THEN /\ override' = Merge(IF put[s].reset THEN NoOverride ELSE override, put[s].patch)
            /\ put' = [put EXCEPT ![s].stage = "ok", ![s].reply = ViewOf(override')]
       ELSE /\ put' = [put EXCEPT ![s].stage = "refused"]
            /\ UNCHANGED override
    /\ UNCHANGED <<cache, get, open, form, testing>>

\* The answer: the cache, and the form and the test when the callbacks still run.
PutDone(s) ==
    /\ put[s].stage = "ok"
    /\ cache' = put[s].reply
    /\ form' = IF put[s].attached THEN toFormState(put[s].reply) ELSE form
    /\ testing' = (testing \/ (put[s].attached /\ put[s].thenTest))
    /\ put' = [put EXCEPT ![s] = NoSave]
    /\ UNCHANGED <<override, get, open>>

PutRefused(s) ==
    /\ put[s].stage = "refused"
    /\ put' = [put EXCEPT ![s] = NoSave]
    /\ UNCHANGED <<override, cache, get, open, form, testing>>

\* The client gives up; a request that is on its way may still be served.
PutTimeout(s) ==
    /\ put[s].stage \in {"sent", "ok", "refused"}
    /\ put' = [put EXCEPT ![s] = IF put[s].stage = "sent"
                                 THEN [@ EXCEPT !.stage = "orphan", !.attached = FALSE]
                                 ELSE NoSave]
    /\ UNCHANGED <<override, cache, get, open, form, testing>>

\* The test alert is answered, which invalidates the cached view, or times out.
TestDone == /\ testing
            /\ testing' = FALSE
            /\ UNCHANGED <<override, cache, get, open, form, put>>

\* It is served, or was lost.
OrphanServe(s) ==
    /\ put[s].stage = "orphan"
    /\ override' \in {override} \cup
          {Merge(IF put[s].reset THEN NoOverride ELSE override, p) :
              p \in {q \in {put[s].patch} : Validate(q)}}
    /\ put' = [put EXCEPT ![s] = NoSave]
    /\ UNCHANGED <<cache, get, open, form, testing>>

DialogNext == \/ OtherPut \/ Fetch \/ FetchServe \/ FetchDone \/ FetchFails
              \/ TestDone \/ OpenDialog \/ CloseDialog \/ EditURL \/ ToggleClear \/ Save \/ ResetToEnv
              \/ \E f \in FormFields : Edit(f)
              \/ \E s \in Saves : PutServe(s) \/ PutDone(s) \/ PutRefused(s) \/ PutTimeout(s)
                                  \/ OrphanServe(s)

DialogSpec == DialogInit /\ [][DialogNext]_dialogVars

-----------------------------------------------------------------------------
(* Properties *)

\* Every variable has its type, the override stays valid whatever the form
\* holds, and a closed dialog has no form, however late an answer comes.
DialogTypeOK ==
    /\ IsOverride(override) /\ Validate(override)
    /\ open \in BOOLEAN /\ testing \in BOOLEAN
    /\ ~open => form = NoForm /\ ~saving
    /\ get.stage \in {"none", "sent", "served"}
    /\ form # NoForm => /\ DOMAIN form.values = FormFields
                        /\ form.webhookUrl \in URLs \cup {""}
                        /\ form.clearWebhook => form.webhookUrl = ""
    /\ \A s \in Saves : put[s].stage \in {"free", "sent", "ok", "refused", "orphan"}

\* "Leave the field empty to keep it" (locales/en.json:191, AlertSettingsDialog.
\* tsx:32): a save that neither typed nor removed the webhook leaves it as it is
\* on the server, also when another operator has changed it since the form was
\* filled.
WebhookStep ==
    \A s \in Saves :
       (/\ put[s].stage \in {"sent", "orphan"} /\ put'[s].stage # put[s].stage
        /\ ~put[s].reset /\ put[s].patch["webhookUrl"] = Nil)
          => Effective(override')["webhookUrl"] = Effective(override)["webhookUrl"]
SentStep ==
    \A s \in Saves :
       (put[s].stage = "free" /\ put'[s].stage = "sent" /\ ~put'[s].reset
        /\ form.webhookUrl = "" /\ ~form.clearWebhook)
          => put'[s].patch["webhookUrl"] = Nil
WebhookUntouched == [][WebhookStep /\ SentStep]_dialogVars

\* What an operator has typed is not lost to a background fetch or to an answer
\* for an earlier dialog (AlertSettingsDialog.tsx:105-113): the form changes
\* when it is edited, opened or closed, and when the answer of its own save
\* comes.
TypedStep ==
    (form' # form /\ form # NoForm /\ form' # NoForm) =>
       \/ UNCHANGED <<override, cache, get, put, testing>>
       \/ \E s \in Saves : put[s].attached /\ put[s].stage = "ok" /\ put'[s].stage = "free"
TypedSurvives == [][TypedStep]_dialogVars
=============================================================================
