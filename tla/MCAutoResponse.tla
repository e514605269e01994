--------------------------- MODULE MCAutoResponse ---------------------------
(* Instances of AutoResponse for TLC.                                      *)
EXTENDS AutoResponse

CONSTANTS slack, email, boss, peer, m1, m2

ChannelOf == [m \in Messages |-> IF m = m1 THEN slack ELSE email]
SenderOf == [m \in Messages |-> IF m = m1 THEN boss ELSE peer]

NoContactRule == [c \in Contacts |-> Unset]
NoChannelRule == [c \in Channels |-> Unset]

\* hooks.ts: DEFAULT_SCOPE_CONFIG
DefaultScope ==
  [contactOverrides |-> NoContactRule, channelOverrides |-> NoChannelRule,
   classificationOverrides |->
     [k \in Classifications |-> CASE k = "critical" -> "notify"
                                  [] k = "noise" -> "autonomous"
                                  [] OTHER -> Unset],
   defaultAutonomy |-> "approve", disabledChannels |-> {}, disabledContacts |-> {}]

\* The boss's messages are never answered, though the channel is autonomous.
BossBlocked ==
  [DefaultScope EXCEPT !.contactOverrides = [NoContactRule EXCEPT ![boss] = "block"],
                       !.channelOverrides = [NoChannelRule EXCEPT ![slack] = "autonomous"]]

\* Everything waits for approval, and the mail is left alone.
MailDisabled ==
  [DefaultScope EXCEPT !.channelOverrides = [NoChannelRule EXCEPT ![slack] = "approve"],
                       !.disabledChannels = {email}]

AllScopes == {DefaultScope, BossBlocked, MailDisabled}
OnlyDefault == {DefaultScope}
=============================================================================
