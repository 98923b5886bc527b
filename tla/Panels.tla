------------------------------- MODULE Panels -------------------------------
(***************************************************************************)
(* The components of the web client that show lists: the operations each   *)
(* offers on its rows, the forms and dialogs it sends them from, what it   *)
(* greys out meanwhile.  Most show the list of a store; a panel with rows  *)
(* of its own loses them, and answers under way, when it is closed.        *)
(***************************************************************************)
EXTENDS Stores

(* A form that can be sent again before its answer is there. *)
Composer(call, then) == [Form(Act(call, then)) EXCEPT !.lock = "no"]

(* Servers: the sidebar with its context menu, the modals that make, edit, *)
(* find and enter a server.                                                *)
CreateServer == Dialog(Act("createServer", "add"))
UpdateServer == Form(Act("updateServer", "replace"))
ServerPanel == [ServerStore EXCEPT
    !.acts = [create |-> CreateServer, update |-> UpdateServer,
              delete |-> Act("deleteServer", "drop")]]
ServerLeavePanel == [ServerStore EXCEPT !.acts = [delete |-> LeaveServer]]
ServerTemplates == List("listTemplates")
BrowsePanel == [DiscoverableServers EXCEPT
    !.acts = [update |-> Locked(JoinServer, "row")]]
InvitedPanel == [DiscoverableServers EXCEPT
    !.acts = [update |-> Dialog(JoinByInvite)]]

(* Channels: the sidebar, its context menu and modals, and the editor of a *)
(* channel's permissions.                                                  *)
CreateChannel == Dialog(Act("createChannel", "add"))
UpdateChannel == Form(Act("updateChannel", "replace"))
DeleteChannel == Act("deleteChannel", "drop")
ChannelPanel == [ChannelStore EXCEPT
    !.fresh = TRUE,
    !.acts = [create |-> CreateChannel, update |-> UpdateChannel,
              delete |-> DeleteChannel]]
SaveOverride == Locked(Act("setChannelOverride", "addnew"), "all")
ChangeOverride == Locked(Act("setChannelOverride", "replace"), "all")
OverridePanel == [Mounted(List("listChannelOverrides")) EXCEPT
    !.acts = [create |-> SaveOverride, update |-> ChangeOverride,
              delete |-> Locked(Act("deleteChannelOverride", "drop"), "all")]]

(* Members: the sidebar with its context menu, the moderation modals, the  *)
(* menu of a member's roles, the profile card, the bans.                   *)
KickModal == Form(KickMember)
BanModal == Form(BanMember)
TimeoutModal == Form(TimeoutMember)
AssignRole == Locked(Act("assignRole", "wait"), "row")
MemberPanel == [MemberStore EXCEPT
    !.acts = [update |-> TimeoutModal, delete |-> KickModal]]
MemberMenu == [MemberStore EXCEPT
    !.acts = [update |-> AssignRole, delete |-> BanModal]]
ProfileCard == Mounted(List("getUserProfile"))
BanPanel == [BanStore EXCEPT
    !.acts = [delete |-> Locked(Act("removeBan", "drop"), "row")]]

(* Roles: the tab with its confirmation, and the editor. *)
CreateRole == Form(Act("createRole", "add"))
UpdateRole == Form(Act("updateRole", "replace"))
RolePanel == [RoleStore EXCEPT
    !.acts = [create |-> CreateRole, update |-> UpdateRole,
              delete |-> Dialog(Act("deleteRole", "drop"))]]

-----------------------------------------------------------------------------
(* The tabs of the server settings. *)
CreateInvite == Dialog(Act("createInvite", "add"))
DeleteInvite == Act("deleteInvite", "drop")
InvitePanel == [Mounted(List("listInvites")) EXCEPT
    !.acts = [create |-> CreateInvite, delete |-> DeleteInvite]]

CreateWebhook == Dialog(Act("createWebhook", "add"))
UpdateWebhook == Locked(Act("updateWebhook", "replace"), "row")
WebhookPanel == [Mounted(List("listWebhooks")) EXCEPT
    !.acts = [create |-> CreateWebhook, update |-> UpdateWebhook,
              delete |-> Locked(Act("deleteWebhook", "drop"), "row")]]

(* A revoked bot, or one with a new token, stays in the list. *)
CreateBot == Dialog(Act("createBot", "add"))
UpdateBot == Locked(Act("updateBot", "replace"), "op")
RevokeBot == Locked(Act("revokeBot", "replace"), "row")
RegenerateToken == Locked(Act("regenerateBotToken", "replace"), "row")
BotPanel == [Mounted(List("listBots")) EXCEPT
    !.acts = [create |-> CreateBot, update |-> UpdateBot]]
BotTokens == {[BotPanel EXCEPT !.acts = [update |-> act]] :
                act \in {RevokeBot, RegenerateToken}}
BotLogs == [List("getBotLogs") EXCEPT !.fresh = TRUE, !.again = TRUE]

UpdateRules == Act("updateAutomodConfig", "replace")
RulesPanel == [Mounted(List("getAutomodConfig")) EXCEPT
    !.acts = [update |-> UpdateRules]]
WordPanel == [Mounted(List("listWordFilters")) EXCEPT
    !.acts = [create |-> Composer("addWordFilter", "add"),
              delete |-> Act("removeWordFilter", "drop")]]
HitPanel == Mounted(List("listAutomodLogs"))

AuditPanel == [List("getAuditLogs") EXCEPT !.again = TRUE]
EmojiPanel == [CustomEmojiStore EXCEPT
    !.acts = [create |-> Dialog(Act("uploadCustomEmoji", "refetch")),
              delete |-> Act("deleteCustomEmoji", "refetch")]]

-----------------------------------------------------------------------------
(* Messages.  The field of a new message is never greyed out, that of a    *)
(* thread is.                                                              *)
SendMessage == Composer("createMessage", "wait")
EditMessage == Composer("updateMessage", "replace")
DeleteMessage == Act("deleteMessage", "wait")
MessagePanel == [MessageStore EXCEPT
    !.fresh = TRUE,
    !.acts = [create |-> SendMessage, update |-> EditMessage,
              delete |-> DeleteMessage]]
CreatePoll == Form(Act("createPoll", "wait"))
CreateEvent == Form(Act("createEvent", "wait"))
PinMessage == Act("pinMessage", "wait")
CommandPanel ==
    {[MessageStore EXCEPT !.acts = [create |-> act, update |-> PinMessage]] :
       act \in {CreatePoll, CreateEvent}}

(* A vote shows at once; other users' votes are heard of. *)
CastVote == [Act("castVote", "replace") EXCEPT !.early = TRUE]
PollPanel == [MessageStore EXCEPT !.acts = [update |-> CastVote]]

(* The user's own reactions on a message.  The reaction bar writes back    *)
(* the list that it was clicked in; the quick reactions of the message add *)
(* to the list as it is.                                                   *)
AddReaction == [Act("addReaction", "add") EXCEPT
    !.heal = TRUE, !.whole = {TRUE, FALSE}]
RemoveReaction == [Act("removeReaction", "drop") EXCEPT
    !.heal = TRUE, !.whole = {TRUE}]
ReactionPanel == [Mounted(List("listReactions")) EXCEPT
    !.acts = [create |-> AddReaction, delete |-> RemoveReaction]]

ThreadPanel == [ThreadStore EXCEPT
    !.acts = [create |-> Dialog(Act("createThreadReply", "addnew"))]]
PinnedPanel == Mounted(List("listPinnedMessages"))
SearchPanel == [List("searchMessages") EXCEPT !.guard = TRUE]
GifPanel == List("searchGifs")
Preview == [List("getLinkPreview") EXCEPT !.guard = TRUE]

DmPanel == [DmMessageStore EXCEPT
    !.acts = [create |-> Composer("sendDmMessage", "addnew")]]
DmSidebar == [DmChannelStore EXCEPT
    !.again = TRUE, !.acts = [create |-> Act("openDmChannel", "addnew")]]

-----------------------------------------------------------------------------
(* The instance: users and servers are listed by page and search. *)
ChangeUser == Act("updateAdminUser", "refetch")
AdminUserPanel == [AdminUserStore EXCEPT
    !.acts = [update |-> ChangeUser,
              delete |-> Dialog(Act("deleteAdminUser", "refetch"))]]
AdminServerPanel == [AdminServerStore EXCEPT
    !.acts = [delete |-> Dialog(Act("deleteAdminServer", "refetch"))]]
AdminSettings == [Mounted(List("getAdminSettings")) EXCEPT
    !.acts = [update |-> Locked(Act("updateAdminSettings", "replace"), "op")]]
AdminOverview == [AdminStats EXCEPT !.again = TRUE]

StorePanels ==
    {ServerPanel, ServerLeavePanel, ServerTemplates, BrowsePanel, InvitedPanel,
     ChannelPanel, OverridePanel, OverrideStore, MemberPanel, MemberMenu,
     ProfileCard, BanPanel, RolePanel}
SettingsPanels ==
    {InvitePanel, WebhookPanel, BotPanel, BotLogs, RulesPanel, WordPanel,
     HitPanel, AuditPanel, EmojiPanel, AdminUserPanel, AdminServerPanel,
     AdminSettings, AdminOverview, AutomodConfig, WordFilters, AutomodLogs}
    \cup BotTokens
MessagePanels ==
    {MessagePanel, PollPanel, ReactionPanel, ThreadPanel, PinnedPanel,
     SearchPanel, GifPanel, Preview, DmPanel, DmSidebar} \cup CommandPanel
=============================================================================
