-------------------------- MODULE MCChannelIntake --------------------------
(***************************************************************************)
(* Six deployments: on each platform one to three posts out of a few, that *)
(* differ in what their handlers tell apart.                               *)
(***************************************************************************)
EXTENDS ChannelIntake

CONSTANTS ann, bob, eve, bot, dm, group

Say(user, chat, mention, text, files) ==
    [kind |-> "message", user |-> user, chat |-> chat, root |-> 0,
     mention |-> mention, text |-> text, files |-> files]
InThread(p) == [p EXCEPT !.root = 1]
Press(user, chat) ==
    [kind |-> "interaction", user |-> user, chat |-> chat, root |-> 0,
     mention |-> FALSE, text |-> "command", files |-> <<>>]
Invite(user, chat) ==
    [kind |-> "invite", user |-> user, chat |-> chat, root |-> 0,
     mention |-> FALSE, text |-> "none", files |-> <<>>]

Deployment(platform, said, n, most, changes, errors) ==
    [platform |-> platform, posts |-> said, byId |-> {ann}, byName |-> {bob},
     direct |-> {dm}, inside |-> {dm} \cup (IF platform = "matrix" THEN {} ELSE {group}),
     most |-> n, starts |-> most, edits |-> changes, faults |-> errors]

OnTelegram ==
    {Say(ann, dm, FALSE, "words", <<>>), Say(eve, group, FALSE, "words", <<>>),
     Say(eve, dm, FALSE, "command", <<>>), Say(bob, group, FALSE, "command", <<"good">>),
     Say(ann, dm, FALSE, "none", <<"empty">>)}
OnDiscord ==
    {Say(ann, dm, FALSE, "words", <<>>), Say(ann, group, FALSE, "words", <<>>),
     Say(bob, group, TRUE, "words", <<"large", "good">>), Say(ann, group, TRUE, "command", <<>>),
     Say(eve, group, TRUE, "words", <<>>), Say(bot, group, TRUE, "words", <<>>),
     Press(eve, group)}
\* On Slack, what is answered; what is told of again; and what is told of twice.
OnSlack ==
    {Say(ann, dm, FALSE, "words", <<>>), Say(bob, dm, FALSE, "command", <<>>),
     Say(ann, group, TRUE, "words", <<"good">>), InThread(Say(ann, group, TRUE, "command", <<>>))}
AgainOnSlack ==
    {Say(ann, group, TRUE, "words", <<>>), Say(ann, group, FALSE, "words", <<>>),
     Say(eve, group, TRUE, "words", <<>>),
     Say(bot, dm, FALSE, "words", <<>>), Press(eve, group)}
TwiceOnSlack == {Say(ann, dm, TRUE, "words", <<"unlinked">>), Say(bob, dm, TRUE, "command", <<>>)}
OnMatrix ==
    {Say(ann, dm, FALSE, "words", <<>>), Say(ann, group, TRUE, "command", <<>>),
     Say(bob, dm, FALSE, "words", <<>>), Say(ann, group, FALSE, "none", <<"good">>),
     Say(bot, dm, FALSE, "words", <<>>), Say(ann, dm, FALSE, "none", <<"large">>),
     Say(ann, dm, FALSE, "none", <<"empty">>),
     Invite(ann, group), Invite(eve, group), Say(ann, group, FALSE, "words", <<>>)}

MCMatrixOnly == {Deployment("matrix", OnMatrix, 2, 2, 2, 1)}
MCInstances ==
    {Deployment("telegram", OnTelegram, 2, 2, 0, 1), Deployment("discord", OnDiscord, 2, 2, 1, 1),
     Deployment("slack", OnSlack, 2, 2, 0, 1), Deployment("slack", AgainOnSlack, 2, 1, 1, 0),
     Deployment("slack", TwiceOnSlack, 1, 2, 1, 1)} \cup MCMatrixOnly
=============================================================================
