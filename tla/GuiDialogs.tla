------------------------------- MODULE GuiDialogs ------------------------------
(***************************************************************************)
(* The window's dialogs for what cannot be undone: the firmware update's   *)
(* consent, the counter reset and the two recoveries. Clicks become        *)
(* messages by the view that is drawn, and a queue of them is handled one  *)
(* by one before the next view: a second click of a double click is        *)
(* handled in a state that no longer offers it.                            *)
(*                                                                         *)
(* The daemon is external here but for what it answers; it may die under a *)
(* request, which ends the call with an error.                             *)
(***************************************************************************)
EXTENDS Naturals, Sequences, FiniteSets

CONSTANTS
    None,
    DialogBudgets  \* bounds: dialogs opened, extra clicks, deaths

\* A dialog that is closed is in neither state
DialogConstants == None \notin {"consent", "flashing"}

Recoveries == {"restore", "import"}

VARIABLES
    offered,   \* the daemon's offer: a firmware update, with its consent text
    firmware,  \* firmware_modal
    erase,     \* reset_modal: None, or whether RESET is typed
    recovery,  \* recovery_modal
    drawn,     \* what the view drawn last offers
    queue,     \* messages not handled yet
    sentTo,    \* calls of the window under way
    opened, asked,   \* history: consents opened, flashes asked for
    dbounds

dvars == <<offered, firmware, erase, recovery, drawn, queue, sentTo, opened, asked, dbounds>>

TakesOne(what) == dbounds[what] > 0 /\ dbounds' = [dbounds EXCEPT ![what] = @ - 1]

DialogsInit ==
    /\ offered \in BOOLEAN /\ firmware = None /\ erase = None /\ recovery = None
    /\ drawn = {} /\ queue = <<>> /\ sentTo = {} /\ opened = 0 /\ asked = 0
    /\ dbounds \in DialogBudgets

-----------------------------------------------------------------------------
(* The view: one dialog at a time, the reset before the others *)

PageOffers ==
    {"PromptResetCounters", "PromptRestoreDeviceFromPc", "PromptImportPcFromDevice"}
        \cup (IF offered THEN {"PromptFirmwareConsent"} ELSE {})

ResetOffers == {"ResetModalInput", "CancelResetModal"}
                   \cup (IF erase = TRUE THEN {"ConfirmResetCounters"} ELSE {})

RecoveryOffers ==
    {"CancelRecoveryModal", IF recovery = "restore" THEN "ConfirmRestoreDeviceFromPc"
                                                    ELSE "ConfirmImportPcFromDevice"}

ConsentOffers == {"CancelFirmwareModal", "ConfirmFirmwareUpdate"}
ResultOffers  == {"CancelFirmwareModal"}

\* While the pad is flashed the dialog offers nothing: not even to close it
FirmwareOffers ==
    CASE firmware = "consent"  -> ConsentOffers
      [] firmware = "flashing" -> {}
      [] OTHER                 -> ResultOffers

ViewOffers ==
    IF erase # None THEN ResetOffers
    ELSE IF recovery # None THEN RecoveryOffers
    ELSE IF firmware # None THEN FirmwareOffers
    ELSE PageOffers

Drawn ==
    /\ queue = <<>> /\ drawn # ViewOffers /\ drawn' = ViewOffers
    /\ UNCHANGED <<offered, firmware, erase, recovery, queue, sentTo, opened, asked, dbounds>>

\* A click; or a second one before the first is handled
Click(message) ==
    /\ message \in drawn /\ Len(queue) < 2
    /\ TakesOne(IF queue # <<>> THEN "doubles" ELSE "clicks")
    /\ queue' = Append(queue, message)
    /\ UNCHANGED <<offered, firmware, erase, recovery, drawn, sentTo, opened, asked>>

-----------------------------------------------------------------------------
(* The messages *)

Next1 == Head(queue)

Sends(what) == sentTo' = sentTo \cup {what}

PromptFirmwareConsent ==
    /\ IF offered THEN firmware' = "consent" /\ opened' = opened + 1
                  ELSE UNCHANGED <<firmware, opened>>
    /\ UNCHANGED <<erase, recovery, sentTo, asked>>

StillAsking == TRUE
\* Only the dialog that asks is answered, and an answer turns it into another
Consents == firmware = "consent"

ConfirmFirmwareUpdate ==
    /\ IF Consents THEN firmware' = "flashing" /\ asked' = asked + 1 /\ Sends("firmware")
                   ELSE UNCHANGED <<firmware, asked, sentTo>>
    /\ UNCHANGED <<erase, recovery, opened>>

CancelFirmwareModal ==
    firmware' = None /\ UNCHANGED <<erase, recovery, sentTo, opened, asked>>

ResetMessages(m) ==
    /\ erase' = CASE m = "PromptResetCounters" -> FALSE
                  [] m = "ResetModalInput"     -> TRUE
                  [] OTHER                     -> None
    /\ IF m = "ConfirmResetCounters" THEN Sends("reset") ELSE UNCHANGED sentTo
    /\ UNCHANGED <<firmware, recovery, opened, asked>>

RecoveryMessages(m) ==
    /\ recovery' = CASE m = "PromptRestoreDeviceFromPc" -> "restore"
                     [] m = "PromptImportPcFromDevice"  -> "import"
                     [] OTHER                           -> None
    /\ CASE m = "ConfirmRestoreDeviceFromPc" -> Sends("restore")
         [] m = "ConfirmImportPcFromDevice"  -> Sends("import")
         [] OTHER                            -> UNCHANGED sentTo
    /\ UNCHANGED <<firmware, erase, opened, asked>>

Handled ==
    /\ queue # <<>> /\ queue' = Tail(queue)
    /\ CASE Next1 = "PromptFirmwareConsent" -> PromptFirmwareConsent
         [] Next1 = "ConfirmFirmwareUpdate" -> ConfirmFirmwareUpdate
         [] Next1 = "CancelFirmwareModal"   -> CancelFirmwareModal
         [] Next1 \in ResetOffers \cup {"PromptResetCounters", "ConfirmResetCounters"}
                                            -> ResetMessages(Next1)
         [] OTHER                           -> RecoveryMessages(Next1)
    /\ UNCHANGED <<offered, drawn, dbounds>>

\* FirmwareUpdateResult: whatever it says, it ends the flashing dialog - or
\* takes the place of what stands there meanwhile
FirmwareResult(success) ==
    /\ "firmware" \in sentTo /\ sentTo' = sentTo \ {"firmware"}
    /\ firmware' = IF success THEN "success" ELSE "failed"
    /\ offered' = (offered /\ ~success)
    /\ UNCHANGED <<erase, recovery, drawn, queue, opened, asked, dbounds>>

ActionDone(what) ==
    /\ what \in sentTo \ {"firmware"} /\ sentTo' = sentTo \ {what}
    /\ UNCHANGED <<offered, firmware, erase, recovery, drawn, queue, opened, asked, dbounds>>

DialogsNext ==
    \/ Drawn \/ Handled
    \/ \E m \in drawn : Click(m)
    \/ \E success \in BOOLEAN : FirmwareResult(success)
    \/ \E what \in sentTo : ActionDone(what)

DialogsSpec == DialogsInit /\ [][DialogsNext]_dvars

-----------------------------------------------------------------------------
(* Properties *)

DialogsTypeOK ==
    /\ firmware \in {None, "consent", "flashing", "success", "failed"}
    /\ erase \in {None, TRUE, FALSE} /\ recovery \in Recoveries \cup {None}

\* A consent flashes once, however often it is clicked before the next view.
OneFlashPerConsent == asked <= opened

\* Nothing can close the flashing dialog, so something must: it never stays
\* once the call has ended.
FlashingIsUnderWay == firmware = "flashing" => "firmware" \in sentTo
===============================================================================
