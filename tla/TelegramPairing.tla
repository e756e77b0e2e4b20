--------------------------- MODULE TelegramPairing ---------------------------
(***************************************************************************)
(* How a Telegram bot gets its destination chat: update_notification_      *)
(* settings saves a bot token and a pairing secret, the operator opens the *)
(* link and presses Start, and the notification loop polls the bot for     *)
(* that message (_poll_telegram_pairing, src/camadmiral/app.py). The       *)
(* request and the poll each read the settings, call Telegram and write    *)
(* the settings, with nothing held in between; and what the request writes *)
(* back where it has nothing new is what a second read found, outside the  *)
(* write transaction. One request is under way at a time.                  *)
(***************************************************************************)
EXTENDS Naturals

CONSTANT MaxSaves   \* bound: settings saved; a save names the bot and secret it brings

ASSUME PairingAssumption == MaxSaves \in Nat

Saves == 0..MaxSaves   \* 0 stands for NULL
None == 0
NoChat == <<None, None>>

VARIABLES
  settings, \* the notification_settings row: bot (bot_token), secret
            \* (pairing_token), live (pairing_expires_at is ahead), chat (chat_id,
            \* named by the Start message it came from: bot and secret), offset
            \* (update_offset, named by the bot whose updates it counts)
  saves,    \* settings saved so far
  request,  \* the settings request under way; row is what its second read found
  poll,     \* the pairing poll under way
  pressed   \* <<bot, secret>> of the Start messages waiting at Telegram (external)

pairingVars == <<settings, saves, request, poll, pressed>>

NoSettings == [bot |-> None, secret |-> None, live |-> FALSE, chat |-> NoChat,
               offset |-> None]
NoRequest == [step |-> "idle", replacing |-> FALSE, fresh |-> FALSE,
              row |-> NoSettings]
NoPoll == [step |-> "idle", bot |-> None, secret |-> None, offset |-> None]

\* An expiry stands only beside the secret it belongs to.
SettingsRow ==
  {r \in [bot : Saves, secret : Saves, live : BOOLEAN, chat : Saves \X Saves,
          offset : Saves] : r.live => r.secret # None}

\* Type invariant: the row holds what save_telegram_settings and the pairing
\* poll write.
PairingTypeOK ==
  /\ settings \in SettingsRow
  /\ saves \in Saves
  /\ request \in [step : {"idle", "saving", "writing"}, replacing : BOOLEAN,
                  fresh : BOOLEAN, row : SettingsRow]
  /\ poll \in [step : {"idle", "asking", "found", "unmatched"}, bot : Saves,
               secret : Saves, offset : Saves]
  /\ pressed \in SUBSET (Saves \X Saves)

PairingInit ==
  /\ settings = NoSettings
  /\ saves = 0
  /\ request = NoRequest /\ poll = NoPoll
  /\ pressed = {}

-----------------------------------------------------------------------------
(* The settings request. *)

\* The request reads the settings; with a new token it now asks Telegram
\* about the bot. A fresh secret is due unless a chat is connected already.
BeginSave(replacing) ==
  /\ request.step = "idle"
  /\ saves < MaxSaves
  /\ replacing \/ settings.bot # None
  /\ request' = [NoRequest EXCEPT !.step = "saving", !.replacing = replacing,
                                 !.fresh = replacing \/ settings.chat = NoChat]
  /\ UNCHANGED <<settings, saves, poll, pressed>>

\* The bot is unknown or has a webhook, Telegram is unavailable, the database
\* is locked for too long, or the process ends.
AbandonSave ==
  /\ request.step # "idle"
  /\ request' = NoRequest
  /\ UNCHANGED <<settings, saves, poll, pressed>>

\* save_telegram_settings first reads the row, in autocommit mode.
ReadRow ==
  /\ request.step = "saving"
  /\ request' = [request EXCEPT !.step = "writing", !.row = settings]
  /\ UNCHANGED <<settings, saves, poll, pressed>>

\* Wrong on purpose: the chat of the previous bot is kept; a save without a
\* token disconnects.
SavedKeepingChat(old, replacing, fresh, n) ==
  [bot    |-> IF replacing THEN n ELSE old.bot,
   secret |-> IF fresh THEN n ELSE old.secret,
   live   |-> fresh \/ old.live,
   chat   |-> old.chat,
   offset |-> IF replacing THEN None ELSE old.offset]
SavedDisconnecting(old, replacing, fresh, n) ==
  [SavedKeepingChat(old, replacing, fresh, n) EXCEPT !.chat = NoChat]

\* The row save_telegram_settings leaves where it read old.
Saved(old, replacing, fresh, n) ==
  [bot    |-> IF replacing THEN n ELSE old.bot,
   secret |-> IF fresh THEN n ELSE old.secret,
   live   |-> fresh \/ old.live,
   chat   |-> IF replacing THEN NoChat ELSE old.chat,
   offset |-> IF replacing THEN None ELSE old.offset]

\* The INSERT ... ON CONFLICT DO UPDATE of every column.
CommitSave ==
  /\ request.step = "writing"
  /\ saves' = saves + 1
  /\ settings' = Saved(request.row, request.replacing, request.fresh, saves + 1)
  /\ request' = NoRequest
  /\ UNCHANGED <<poll, pressed>>

\* Fifteen minutes after it was made a secret stops being polled for.
Expire ==
  /\ settings.live
  /\ settings' = [settings EXCEPT !.live = FALSE]
  /\ UNCHANGED <<saves, request, poll, pressed>>

\* The operator follows the link the settings show.
PressStart ==
  /\ settings.secret # None
  /\ pressed' = pressed \cup {<<settings.bot, settings.secret>>}
  /\ UNCHANGED <<settings, saves, request, poll>>

-----------------------------------------------------------------------------
(* The pairing round of the notification loop. *)

BeginPoll ==
  /\ poll.step = "idle"
  /\ settings.bot # None /\ settings.secret # None /\ settings.chat = NoChat
  /\ settings.live
  /\ poll' = [step |-> "asking", bot |-> settings.bot, secret |-> settings.secret,
              offset |-> settings.offset]
  /\ UNCHANGED <<settings, saves, request, pressed>>

\* Wrong on purpose: any Start message pairs.
MatchAnySecret(bot, secret) == \E s \in Saves : <<bot, s>> \in pressed

\* pairing_message: a Start message to this bot, with this secret.
Match(bot, secret) == <<bot, secret>> \in pressed

\* Telegram answers getUpdates, or fails and the loop defers to its next
\* round. An offset counted for another bot may hide the message.
AnswerPoll ==
  /\ poll.step = "asking"
  /\ \/ Match(poll.bot, poll.secret) /\ poll' = [poll EXCEPT !.step = "found"]
     \/ /\ ~Match(poll.bot, poll.secret) \/ poll.offset \notin {None, poll.bot}
        /\ poll' = [poll EXCEPT !.step = "unmatched"]
     \/ poll' = NoPoll
  /\ UNCHANGED <<settings, saves, request, pressed>>

\* complete_telegram_pairing: the chat goes to the settings as they are now.
CommitPairing ==
  /\ poll.step = "found"
  /\ settings' = [settings EXCEPT !.chat = <<poll.bot, poll.secret>>, !.secret = None,
                                  !.live = FALSE, !.offset = poll.bot]
  /\ poll' = NoPoll
  /\ UNCHANGED <<saves, request, pressed>>

\* update_telegram_offset, if there were other messages.
CommitOffset ==
  /\ poll.step = "unmatched"
  /\ settings' \in {settings, [settings EXCEPT !.offset = poll.bot]}
  /\ poll' = NoPoll
  /\ UNCHANGED <<saves, request, pressed>>

PairingNext ==
  \/ \E replacing \in BOOLEAN : BeginSave(replacing)
  \/ AbandonSave \/ ReadRow \/ CommitSave \/ Expire \/ PressStart
  \/ BeginPoll \/ AnswerPoll \/ CommitPairing \/ CommitOffset

PairingSpec == PairingInit /\ [][PairingNext]_pairingVars

-----------------------------------------------------------------------------
(* Properties. *)

\* A destination was always chosen by the operator: the stored chat comes
\* from a Start message that reached the polled bot with the polled secret,
\* however saves, expiry and polls overlap.
ChatWasPaired == settings.chat # NoChat => settings.chat \in pressed

\* A connected destination is never exchanged for another one, and where it
\* is taken away a new pairing link is there: by a save with a token, or by
\* one that writes back a row read before the pairing. No late poll and no
\* save begun while it was connected leaves the operator without alerts and
\* without a link.
ChatYieldsToPairing ==
  [][settings.chat # NoChat /\ settings'.chat # settings.chat =>
       settings'.chat = NoChat /\ settings'.live /\ settings'.secret = saves']_pairingVars

\* What README.md says ("Alerts are enabled automatically when the bot is
\* configured and paired") needs: only a new bot token disconnects.
ChatKeptUntilReplaced ==
  [][settings.chat # NoChat /\ settings'.chat # settings.chat
       => settings'.chat = NoChat /\ settings'.bot # settings.bot]_pairingVars

\* What README.md says ("CamAdmiral discovers the destination chat from that
\* one-time pairing message", the one to the bot just pasted): the stored
\* chat is one that was opened with the stored bot.
ChatBelongsToBot == settings.chat # NoChat => settings.chat[1] = settings.bot
=============================================================================
