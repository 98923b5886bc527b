-------------------------------- MODULE Api --------------------------------
(***************************************************************************)
(* The calls of the web client's ApiClient (api/client.ts): for each of    *)
(* its methods whether the request changes something on the server, what   *)
(* its answer is taken for, and whether a 401 makes request() refresh the  *)
(* tokens and repeat the call.  Session.tla gives the calls their course;  *)
(* Views.tla says what the stores and panels do with their answers.        *)
(***************************************************************************)
EXTENDS TLC

(* A method answers with nothing, with the row it is about, or with rows.  *)
Reading(calls, answer) ==
    [c \in calls |-> [writes |-> FALSE, answers |-> answer, refreshes |-> TRUE]]
Writing(calls, answer) ==
    [c \in calls |-> [writes |-> TRUE, answers |-> answer, refreshes |-> TRUE]]
Once(calls) == [c \in DOMAIN calls |-> [calls[c] EXCEPT !.refreshes = FALSE]]

AccountCalls ==
    Once(Writing({"register", "login"}, "row"))
    @@ Reading({"getCurrentUser", "getUserProfile"}, "row")
    @@ Writing({"updateCurrentUser"}, "row")

ServerCalls ==
    Reading({"listServers", "browseServers", "listTemplates", "listMembers"},
            "rows")
    @@ Reading({"getServer"}, "row")
    @@ Writing({"createServer", "updateServer"}, "row")
    @@ Writing({"deleteServer", "joinServer", "leaveServer"}, "nothing")

ChannelCalls ==
    Reading({"listChannels", "listChannelOverrides"}, "rows")
    @@ Reading({"getChannel"}, "row")
    @@ Writing({"createChannel", "updateChannel", "setChannelOverride"}, "row")
    @@ Writing({"deleteChannel", "deleteChannelOverride"}, "nothing")

MessageCalls ==
    Reading({"listMessages"}, "rows") @@ Reading({"getMessage"}, "row")
    @@ Writing({"createMessage", "updateMessage"}, "row")
    @@ Writing({"deleteMessage"}, "nothing")

VoiceCalls ==
    Reading({"listVoiceParticipants"}, "rows") @@ Reading({"getGoLive"}, "row")
    @@ Writing({"joinVoiceChannel", "updateVoiceState", "startGoLive"}, "row")
    @@ Writing({"leaveVoiceChannel", "stopGoLive"}, "nothing")

DirectCalls ==
    Reading({"listAttachments", "listDmChannels", "listDmMessages",
             "listThreadReplies"}, "rows")
    @@ Writing({"uploadAttachments"}, "rows")
    @@ Writing({"openDmChannel", "sendDmMessage", "createThreadReply"}, "row")
    @@ Writing({"ackChannel", "ackDmChannel"}, "nothing")

ContentCalls ==
    Reading({"listCustomEmojis", "listReactions", "listPinnedMessages",
             "searchGifs"}, "rows")
    @@ Reading({"getLinkPreview", "getPoll"}, "row")
    @@ Writing({"uploadCustomEmoji", "createPoll", "castVote", "createEvent"},
               "row")
    @@ Writing({"deleteCustomEmoji", "addReaction", "removeReaction",
                "pinMessage", "unpinMessage"}, "nothing")

RecoveryCalls ==
    Reading({"searchMessages", "getIceServers"}, "rows")
    @@ Writing({"forgotPassword"}, "row")
    @@ Writing({"resetPassword"}, "nothing")

AutomodCalls ==
    Reading({"listWordFilters", "listAutomodLogs", "listBans"}, "rows")
    @@ Reading({"getAutomodConfig"}, "row")
    @@ Writing({"updateAutomodConfig", "addWordFilter"}, "row")
    @@ Writing({"removeWordFilter", "removeBan"}, "nothing")

BotCalls ==
    Reading({"listBots", "getBotLogs"}, "rows") @@ Reading({"getBot"}, "row")
    @@ Writing({"createBot", "regenerateBotToken", "updateBot"}, "row")
    @@ Writing({"revokeBot"}, "nothing")

(* The export goes past request(): it is never repeated. *)
ExportCalls == Once(Reading({"exportServer"}, "nothing"))

ModerationCalls ==
    Reading({"listInvites"}, "rows") @@ Reading({"previewInvite"}, "row")
    @@ Writing({"createInvite", "acceptInvite"}, "row")
    @@ Writing({"kickMember", "banMember", "timeoutMember", "removeTimeout",
                "deleteInvite"}, "nothing")

WebhookCalls ==
    Reading({"listWebhooks", "getAuditLogs"}, "rows")
    @@ Writing({"createWebhook", "updateWebhook"}, "row")
    @@ Writing({"deleteWebhook", "testWebhook"}, "nothing")

RoleCalls ==
    Reading({"listRoles"}, "rows")
    @@ Writing({"createRole", "updateRole"}, "row")
    @@ Writing({"deleteRole", "assignRole", "removeRole"}, "nothing")

AdminCalls ==
    Reading({"getAdminUsers", "getAdminServers"}, "rows")
    @@ Reading({"getAdminStats", "getAdminSettings"}, "row")
    @@ Writing({"updateAdminSettings"}, "row")
    @@ Writing({"updateAdminUser", "deleteAdminUser", "deleteAdminServer"},
               "nothing")
    @@ Once(Reading({"getRegistrationMode"}, "row"))

ApiCalls ==
    AccountCalls @@ ServerCalls @@ ChannelCalls @@ MessageCalls @@ VoiceCalls
    @@ DirectCalls @@ ContentCalls @@ RecoveryCalls @@ AutomodCalls @@ BotCalls
    @@ ExportCalls @@ ModerationCalls @@ WebhookCalls @@ RoleCalls @@ AdminCalls
=============================================================================
