--------------------------- MODULE ProtocolMethods ---------------------------
(***************************************************************************)
(* The parser tables of lsp::ProtocolJsonHandler: for which methods it can *)
(* read a request, a response or a notification.  Every response parser    *)
(* of the tables reads an "error" member as an error and anything else as  *)
(* the response type of its method.                                        *)
(***************************************************************************)

\* AddStadardResponseJsonRpcMethod, in the order of the source.
StandardResponses1 ==
    {"initialize", "shutdown", "textDocument/codeAction",
     "textDocument/codeLens", "textDocument/completion",
     "textDocument/definition", "textDocument/declaration",
     "textDocument/willSaveWaitUntil", "textDocument/documentHighlight",
     "textDocument/documentLink", "documentLink/resolve",
     "textDocument/documentSymbol", "textDocument/formatting",
     "textDocument/hover", "textDocument/implementation",
     "textDocument/rangeFormatting"}

StandardResponses2 ==
    {"textDocument/references", "textDocument/rename",
     "textDocument/signatureHelp", "textDocument/typeDefinition",
     "workspace/executeCommand", "workspace/symbol",
     "textDocument/typeHierarchy", "completionItem/resolve",
     "codeLens/resolve", "textDocument/colorPresentation",
     "textDocument/documentColor", "textDocument/foldingRange",
     "textDocument/prepareRename", "typeHierarchy/resolve",
     "textDocument/selectionRange"}

StandardResponses3 ==
    {"textDocument/semanticTokens/full",
     "textDocument/semanticTokens/full/delta", "textDocument/inlayHint",
     "inlayHint/resolve", "textDocument/diagnostic", "workspace/diagnostic",
     "textDocument/inlineValue", "textDocument/inlineCompletion",
     "textDocument/rangesFormatting", "workspace/textDocumentContent",
     "workspace/textDocumentContent/refresh",
     "workspace/foldingRange/refresh", "workspace/inlineValue/refresh",
     "codeAction/resolve", "workspaceSymbol/resolve"}

\* AddJdtlsExtensionJsonRpcMethod; java/didRenameFiles and java/willRenameFiles
\* come with their requests.
JdtlsResponses1 ==
    {"java/classFileContents", "java/buildWorkspace",
     "java/listOverridableMethods", "java/checkHashCodeEqualsStatus",
     "java/addOverridableMethods", "java/checkConstructorsStatus",
     "java/checkDelegateMethodsStatus", "java/checkToStringStatus",
     "java/generateAccessors", "java/generateConstructors",
     "java/generateDelegateMethods", "java/generateHashCodeEquals"}

JdtlsResponses2 ==
    {"java/generateToString", "java/getMoveDestinations", "java/getRefactorEdit",
     "java/move", "java/organizeImports",
     "java/resolveUnimplementedAccessors", "java/searchSymbols",
     "java/didRenameFiles", "java/willRenameFiles"}

JdtlsRequests ==
    {"java/didRenameFiles", "java/willRenameFiles"}

JdtlsNotifications ==
    {"java/projectConfigurationUpdate"}

\* AddClientRequestJsonRpcMethod and AddRequstJsonRpcMethod: requests a server
\* makes, without parsers for their responses.
ClientRequests ==
    {"workspace/configuration", "workspace/workspaceFolders"}

CapabilityRequests ==
    {"client/registerCapability", "client/unregisterCapability"}

\* AddNotifyJsonRpcMethod.
Notifications ==
    {"exit", "initialized", "textDocument/didChange", "textDocument/didClose",
     "textDocument/didOpen", "textDocument/didSave",
     "textDocument/publishDiagnostics", "textDocument/semanticHighlighting",
     "textDocument/willSave", "window/logMessage", "window/showMessage",
     "$/progress", "workspace/didChangeWorkspaceFolders",
     "workspace/didChangeConfiguration", "workspace/didChangeWatchedFiles",
     "workspace/notify", "language/status",
     "language/actionableNotification", "language/progressReport",
     "language/eventNotification"}

\* AddStandardRequestJsonRpcMethod.
StandardRequests ==
    {"initialize", "shutdown", "textDocument/codeAction",
     "textDocument/codeLens", "textDocument/completion",
     "textDocument/definition", "textDocument/declaration",
     "textDocument/references", "textDocument/rename", "workspace/symbol",
     "textDocument/willSaveWaitUntil", "textDocument/documentHighlight",
     "textDocument/documentLink", "documentLink/resolve",
     "textDocument/documentSymbol", "textDocument/formatting",
     "textDocument/hover", "textDocument/signatureHelp",
     "textDocument/implementation", "textDocument/foldingRange",
     "workspace/executeCommand", "textDocument/semanticTokens/full",
     "textDocument/semanticTokens/full/delta", "textDocument/inlayHint",
     "inlayHint/resolve", "textDocument/diagnostic", "workspace/diagnostic",
     "textDocument/inlineValue", "textDocument/inlineCompletion",
     "textDocument/rangesFormatting", "workspace/textDocumentContent",
     "workspace/textDocumentContent/refresh",
     "workspace/foldingRange/refresh", "workspace/inlineValue/refresh",
     "codeAction/resolve", "workspaceSymbol/resolve"}

\* AddExperimentalStandardRequestJsonRpcMethod.
ExperimentalRequests ==
    {"textDocument/prepareRename", "textDocument/selectionRange",
     "textDocument/typeDefinition", "textDocument/rangeFormatting",
     "textDocument/onTypeFormatting", "workspace/applyEdit"}

ExperimentalResponses ==
    {"textDocument/onTypeFormatting", "workspace/applyEdit"}

\* AddServerRefreshRequestJsonRpcMethod registers both directions.
RefreshRequests ==
    {"workspace/semanticTokens/refresh", "workspace/inlayHint/refresh",
     "workspace/diagnostic/refresh"}

\* The optional groups of ProtocolJsonHandlerOptions.
OptionGroups == {"jdtls", "experimental", "refresh"}

When(options, group, methods) == IF group \in options THEN methods ELSE {}

\* method2request, method2response and method2notification as the constructor
\* leaves them, with the parser of $/cancelRequest that RemoteEndPoint adds.
RequestParsers(options) ==
    StandardRequests \cup CapabilityRequests \cup ClientRequests
        \cup When(options, "jdtls", JdtlsRequests)
        \cup When(options, "experimental", ExperimentalRequests)
        \cup When(options, "refresh", RefreshRequests)

ResponseParsers(options) ==
    StandardResponses1 \cup StandardResponses2 \cup StandardResponses3
        \cup When(options, "jdtls", JdtlsResponses1 \cup JdtlsResponses2)
        \cup When(options, "experimental", ExperimentalResponses)
        \cup When(options, "refresh", RefreshRequests)

NotificationParsers(options) ==
    Notifications \cup {"$/cancelRequest"}
        \cup When(options, "jdtls", JdtlsNotifications)
=============================================================================
