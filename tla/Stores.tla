------------------------------- MODULE Stores -------------------------------
(***************************************************************************)
(* The lists of rows that the stores of the web client keep, one record    *)
(* for each: where its rows come from, which operations change them and    *)
(* how, which events it hears (hooks/useWebSocket.ts).  Panels.tla adds    *)
(* what the components that show them do, Views.tla gives them their       *)
(* course.                                                                 *)
(***************************************************************************)
EXTENDS Api, Functions

(* A list is fetched for the selected key (a server, a channel, a page),   *)
(* or each time its panel is opened.                                       *)
(*   keyed   there is more than one key, or opening                        *)
(*   map     rows are kept for every key, not for the selected one only    *)
(*   cached  a key is fetched once                                         *)
(*   fresh   the rows are cleared when another key is selected             *)
(*   guard   answers for an earlier selection are thrown away              *)
(*   again   the list is also taken anew at other times                    *)
(*   resync  after a reconnection it is in READY ("ready"), asked for      *)
(*           ("fetch") or left as it is ("no")                             *)
(*   hears   the operations it hears of by events                          *)
(*   twice   an event for a new row is added without a look at the list    *)
(*   acts    the operations of its user                                    *)
List(call) ==
    [list |-> call, keyed |-> TRUE, map |-> FALSE, cached |-> FALSE,
     fresh |-> FALSE, guard |-> FALSE, again |-> FALSE, resync |-> "no",
     hears |-> {}, twice |-> FALSE, acts |-> <<>>]
Mounted(list) == [list EXCEPT !.fresh = TRUE, !.guard = TRUE]

(* What the answer of an operation does to the list: it adds its row ("add"*)
(* or, if the row is not there yet, "addnew"), puts it in place of the old *)
(* one ("replace"), removes it ("drop"), makes it be fetched again         *)
(* ("refetch"), or nothing ("wait"): the event will do.                    *)
(*   form    it is sent from a form or dialog, which its success closes    *)
(*   lock    what is greyed out meanwhile: its row ("row"), the operation  *)
(*           ("op"), all operations ("all"), its form ("form"), nothing    *)
(*   early   the list is changed at once, and back if the call fails       *)
(*   heal    the list is fetched again if the call fails                   *)
(*   whole   the answer changes the list as it was at the click, and puts  *)
(*           that in place of the list (TRUE), or the list as it is now    *)
(*           (FALSE); there may be controls of both kinds                  *)
Act(call, then) == [call |-> call, then |-> then, form |-> FALSE,
                    lock |-> "no", early |-> FALSE, heal |-> FALSE,
                    whole |-> {FALSE}]
Locked(act, lock) == [act EXCEPT !.lock = lock]
Form(act) == [act EXCEPT !.form = TRUE, !.lock = "form"]
Dialog(act) == [act EXCEPT !.form = TRUE, !.lock = "op"]

-----------------------------------------------------------------------------
(* The stores. *)
ServerStore ==
    [List("listServers") EXCEPT !.keyed = FALSE, !.resync = "ready",
        !.hears = {"delete"},
        !.acts = [create |-> Act("createServer", "add"),
                  update |-> Act("updateServer", "replace"),
                  delete |-> Act("deleteServer", "drop")]]
LeaveServer == Act("leaveServer", "drop")
JoinServer == Act("joinServer", "refetch")
JoinByInvite == Act("acceptInvite", "refetch")
DiscoverableServers == List("browseServers")

MemberStore ==
    [List("listMembers") EXCEPT !.fresh = TRUE, !.resync = "fetch",
                                 !.hears = {"update", "delete"}]
KickMember == Act("kickMember", "drop")
BanMember == Act("banMember", "drop")
TimeoutMember == Act("timeoutMember", "wait")
RemoveTimeout == Act("removeTimeout", "replace")
BanStore == [List("listBans") EXCEPT
    !.acts = [delete |-> Act("removeBan", "drop")]]

ChannelStore ==
    [List("listChannels") EXCEPT
        !.acts = [create |-> Act("createChannel", "add"),
                  update |-> Act("updateChannel", "replace"),
                  delete |-> Act("deleteChannel", "drop")]]

MessageStore ==
    [List("listMessages") EXCEPT !.hears = {"create", "update", "delete"},
        !.acts = [create |-> Act("createMessage", "wait"),
                  update |-> Act("updateMessage", "replace"),
                  delete |-> Act("deleteMessage", "wait")]]

ThreadStore ==
    [List("listThreadReplies") EXCEPT !.map = TRUE, !.hears = {"create"},
        !.acts = [create |-> Act("createThreadReply", "addnew")]]

DmChannelStore ==
    [List("listDmChannels") EXCEPT !.keyed = FALSE, !.resync = "ready",
        !.hears = {"create"},
        !.acts = [create |-> Act("openDmChannel", "addnew")]]

DmMessageStore ==
    [List("listDmMessages") EXCEPT !.map = TRUE, !.hears = {"create"},
        !.acts = [create |-> Act("sendDmMessage", "addnew")]]

CustomEmojiStore ==
    [List("listCustomEmojis") EXCEPT !.map = TRUE, !.cached = TRUE,
        !.hears = {"create", "delete"}]

RoleStore ==
    [List("listRoles") EXCEPT !.map = TRUE, !.resync = "ready", !.twice = TRUE,
        !.hears = {"create", "update", "delete"},
        !.acts = [create |-> Act("createRole", "add"),
                  update |-> Act("updateRole", "replace"),
                  delete |-> Act("deleteRole", "drop")]]
OverrideStore ==
    [List("listChannelOverrides") EXCEPT !.map = TRUE, !.resync = "ready",
        !.hears = {"create", "update", "delete"}]

AutomodConfig == [List("getAutomodConfig") EXCEPT
    !.acts = [update |-> Act("updateAutomodConfig", "replace")]]
WordFilters == [List("listWordFilters") EXCEPT
    !.acts = [create |-> Act("addWordFilter", "add"),
              delete |-> Act("removeWordFilter", "drop")]]
AutomodLogs == [List("listAutomodLogs") EXCEPT !.hears = {"create"},
                                               !.twice = TRUE]

AdminStats == [List("getAdminStats") EXCEPT !.keyed = FALSE]
AdminUserStore == [List("getAdminUsers") EXCEPT
    !.acts = [update |-> Act("updateAdminUser", "refetch"),
              delete |-> Act("deleteAdminUser", "refetch")]]
AdminServerStore == [List("getAdminServers") EXCEPT
    !.acts = [delete |-> Act("deleteAdminServer", "refetch")]]
=============================================================================
