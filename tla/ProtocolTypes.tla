--------------------------- MODULE ProtocolTypes ---------------------------
(***************************************************************************)
(* The structures of the protocol: the data members each one declares and  *)
(* the types of their values, one definition per header.  The members of a *)
(* base are listed with its heirs, enumerations by the integer type that   *)
(* carries them, URIs and paths as the strings they are sent as.           *)
(***************************************************************************)
EXTENDS TLC

Scalar(name) == <<name>>
Bool == Scalar("bool")
Octet == Scalar("byte")
Signed == Scalar("int")
Unsigned == Scalar("unsigned")
Double == Scalar("double")
Str == Scalar("string")
Id == Scalar("id")                \* lsRequestId
AnyJson == Scalar("any")          \* lsp::Any, a JSON text
Trace == Scalar("trace")          \* lsInitializeParams::lsTrace
Direction == Scalar("direction")  \* TypeHierarchyDirection
KeyData == Scalar("keyData")      \* lsFormattingOptions::KeyData
MarkedString == Scalar("marked")  \* lsMarkedString

Opt(type) == <<"optional", type>>
Vec(type) == <<"vector", type>>
Dict(type) == <<"map", type>>         \* std::map<std::string, type>
Or(first, second) == <<"or", first, second>>   \* std::pair of two optionals
Union(name) == <<"union", name>>      \* a pair with a reader of its own
The(struct) == <<"struct", struct>>

Each(members, type) == [m \in members |-> type]

CancellationTypes ==
    "Cancellation.Params" :> [id |-> Id]
CodeActionParamsTypes ==
    "lsCodeActionContext" :> [diagnostics |-> Vec(The("lsDiagnostic")),
        only |-> Opt(Vec(Str))] @@
    "lsCodeActionParams" :> [textDocument |-> The("lsTextDocumentIdentifier"),
        range |-> The("lsRange"), context |-> The("lsCodeActionContext")]
ExecuteCommandParamsTypes ==
    "ExecuteCommandParams" :> [command |-> Str, arguments |-> Opt(Vec(AnyJson))]
ResourceOperationTypes ==
    "ResourceOperation" :> [kind |-> Str] @@
    "CreateFileOptions" :> [overwrite |-> Opt(Bool), ignoreIfExists |-> Opt(Bool)] @@
    "lsCreateFile" :> [kind |-> Str, uri |-> Str, options |-> Opt(The("CreateFileOptions")),
        annotationId |-> Opt(Str)] @@
    "DeleteFileOptions" :> [recursive |-> Opt(Bool), ignoreIfNotExists |-> Opt(Bool)] @@
    "lsDeleteFile" :> [kind |-> Str, uri |-> Str, options |-> Opt(The("DeleteFileOptions"))] @@
    "lsRenameFile" :> ([options |-> Opt(The("CreateFileOptions")),
        annotationId |-> Opt(Str)] @@ Each({"kind", "oldUri", "newUri"}, Str))
RegisterCapabilityTypes ==
    "Registration" :> [id |-> Str, method |-> Str] @@
    "RegistrationParams" :> [registrations |-> Vec(The("Registration"))]
UnregisterCapabilityTypes ==
    "Unregistration" :> [id |-> Str, method |-> Str] @@
    "UnregistrationParams" :> [unregisterations |-> Vec(The("Unregistration"))]
OverridableMethodTypes ==
    "OverridableMethod" :> ([parameters |-> Vec(Str), unimplemented |-> Bool] @@
        Each({"bindingKey", "name", "declaringClass", "declaringClassType"}, Str)) @@
    "OverridableMethodsResponse" :> [type |-> Str, methods |-> Vec(The("OverridableMethod"))]
WorkspaceSymbolParamsTypes ==
    "WorkspaceSymbolParams" :> [query |-> Str]
AddOverridableMethodsTypes ==
    "AddOverridableMethodParams" :> [context |-> The("lsCodeActionParams"),
        overridableMethods |-> Vec(The("OverridableMethod"))]
CheckConstructorsStatusTypes ==
    "LspMethodBinding" :> [bindingKey |-> Str, name |-> Str, parameters |-> Vec(Str)] @@
    "CheckConstructorsResponse" :> [constructors |-> Vec(The("LspMethodBinding")),
        fields |-> Vec(The("LspVariableBinding"))]
CheckDelegateMethodsStatusTypes ==
    "LspDelegateField" :> [field |-> The("LspVariableBinding"),
        delegateMethods |-> Vec(The("LspMethodBinding"))] @@
    "CheckDelegateMethodsResponse" :> [delegateFields |-> Vec(The("LspDelegateField"))]
CheckHashCodeEqualsStatusTypes ==
    "LspVariableBinding" :> ([isField |-> Bool] @@ Each({"bindingKey", "name",
        "type"}, Str)) @@
    "CheckHashCodeEqualsResponse" :> [type |-> Str, fields |-> Vec(The("LspVariableBinding")),
        existingMethods |-> Vec(Str)]
CheckToStringStatusTypes ==
    "CheckToStringResponse" :> [type |-> Str, fields |-> Vec(The("LspVariableBinding")),
        exists |-> Bool]
FindLinksTypes ==
    "FindLinksParams" :> [type |-> Str, position |-> The("lsTextDocumentPositionParams")]
GenerateAccessorsTypes ==
    "GenerateAccessorsParams" :> [context |-> The("lsCodeActionParams"),
        accessors |-> Vec(The("AccessorField"))]
GenerateConstructorsTypes ==
    "GenerateConstructorsParams" :> [context |-> The("lsCodeActionParams"),
        constructors |-> Vec(The("LspMethodBinding")),
        fields |-> Vec(The("LspVariableBinding"))]
GenerateDelegateMethodsTypes ==
    "LspDelegateEntry" :> [field |-> The("LspVariableBinding"),
        delegateMethod |-> The("LspMethodBinding")] @@
    "GenerateDelegateMethodsParams" :> [context |-> The("lsCodeActionParams"),
        delegateEntries |-> Vec(The("LspDelegateEntry"))]
GenerateHashCodeEqualsTypes ==
    "GenerateHashCodeEqualsParams" :> [context |-> The("lsCodeActionParams"),
        fields |-> Vec(The("LspVariableBinding")), regenerate |-> Bool]
GenerateToStringTypes ==
    "GenerateToStringParams" :> [context |-> The("lsCodeActionParams"),
        fields |-> Vec(The("LspVariableBinding"))]
GetMoveDestinationsTypes ==
    "MoveParams" :> [moveKind |-> Str, sourceUris |-> Vec(Str),
        params |-> Opt(The("lsCodeActionParams")), destination |-> AnyJson,
        updateReferences |-> Bool] @@
    "MoveDestinationsResponse" :> [errorMessage |-> Str, destinations |-> Vec(AnyJson)]
GetRefactorEditTypes ==
    "RenamePosition" :> [uri |-> Str, offset |-> Signed, length |-> Signed] @@
    "GetRefactorEditParams" :> [command |-> Str, commandArguments |-> Vec(AnyJson),
        context |-> The("lsCodeActionParams"), options |-> Opt(The("lsFormattingOptions"))] @@
    "RefactorWorkspaceEdit" :> [edit |-> The("lsWorkspaceEdit"), errorMessage |-> Opt(Str),
        command |-> Opt(The("lsCommand"))]
ResolveUnimplementedAccessorsTypes ==
    "AccessorField" :> ([fieldName |-> Str] @@ Each({"isStatic", "generateGetter",
        "generateSetter"}, Bool))
SearchSymbolsTypes ==
    "SearchSymbolParams" :> [query |-> Str, projectName |-> Opt(Str), sourceOnly |-> Opt(Bool),
        maxResults |-> Opt(Signed)]
ProtocolTypes ==
    "LintRule" :> [key |-> Str, name |-> Str, activeByDefault |-> Bool, severity |-> Opt(Str),
        type |-> Opt(Str)] @@
    "RuleParameter" :> [name |-> Str, description |-> Opt(Str), defaultValue |-> Opt(Str)] @@
    "ShowRuleDescriptionParams" :> ([parameters |-> Opt(Vec(The("RuleParameter")))] @@
        Each({"key", "name", "htmlDescription", "type", "severity"}, Opt(Str))) @@
    "GetJavaConfigResponse" :> ([classpath |-> Vec(Str), isTest |-> Bool] @@
        Each({"projectRoot", "sourceLevel", "vmLocation"}, Str)) @@
    "SetTraceNotificationParams" :> [value |-> Trace] @@
    "ServerConnectionSettings" :> ([organizationKey |-> Opt(Str)] @@ Each({"connectionId",
        "serverUrl", "token"}, Str)) @@
    "RuleSetting" :> [level |-> Str, parameters |-> Opt(Dict(Str))] @@
    "ConsoleParams" :> [showAnalyzerLogs |-> Opt(Bool), showVerboseLogs |-> Opt(Bool)] @@
    "SonarLintWorkspaceSettings" :> [disableTelemetry |-> Opt(Bool),
        connectedMode |-> Opt(Dict(The("ServerConnectionSettings"))),
        rules |-> Opt(Dict(The("RuleSetting"))), output |-> Opt(The("ConsoleParams")),
        pathToNodeExecutable |-> Opt(Str)]
InitializeParamsTypes ==
    "ClientInfo" :> [name |-> Str, version |-> Opt(Str)] @@
    "lsInitializeParams" :> ([processId |-> Opt(Signed), clientInfo |-> Opt(The("ClientInfo")),
        initializationOptions |-> Opt(AnyJson), capabilities |-> The("lsClientCapabilities"),
        trace |-> Trace, workspaceFolders |-> Opt(Vec(The("WorkspaceFolder"))),
        workDoneToken |-> Opt(Or(Str, Signed))] @@ Each({"locale", "rootPath", "rootUri",
        "clientName"}, Opt(Str))) @@
    "lsInitializeError" :> [retry |-> Bool]
InitializeTypes ==
    "InitializeResult" :> [capabilities |-> The("lsServerCapabilities")]
LsClientCapabilitiesTypes ==
    "MarkdownClientCapabilities" :> [parser |-> Str, version |-> Opt(Str)] @@
    "lsClientCapabilities" :> [workspace |-> Opt(The("lsWorkspaceClientCapabilites")),
        textDocument |-> Opt(The("lsTextDocumentClientCapabilities")), window |-> Opt(AnyJson),
        experimental |-> Opt(AnyJson)]
LsServerCapabilities1Types ==
    "CodeActionOptions" :> [workDoneProgress |-> Opt(Bool), codeActionKinds |-> Vec(Str),
        documentation |-> Opt(Vec(The("CodeActionKindDocumentation")))] @@
    "CodeLensOptions" :> [workDoneProgress |-> Opt(Bool), resolveProvider |-> Opt(Bool)] @@
    "lsDocumentOnTypeFormattingOptions" :> [workDoneProgress |-> Opt(Bool),
        firstTriggerCharacter |-> Str, moreTriggerCharacter |-> Vec(Str)] @@
    "RenameOptions" :> [workDoneProgress |-> Opt(Bool), prepareProvider |-> Opt(Bool)] @@
    "DocumentFilter" :> Each({"language", "scheme", "pattern"}, Opt(Str)) @@
    "lsDocumentLinkOptions" :> [workDoneProgress |-> Opt(Bool),
        resolveProvider |-> Opt(Bool)] @@
    "lsExecuteCommandOptions" :> [workDoneProgress |-> Opt(Bool), commands |-> Vec(Str)] @@
    "TextDocumentRegistrationOptions" :> [documentSelector |-> Opt(Vec(The("DocumentFilter")))] @@
    "StaticRegistrationOptions" :> [documentSelector |-> Opt(Vec(The("DocumentFilter"))),
        id |-> Opt(Str)] @@
    "WorkspaceFoldersOptions" :> [supported |-> Opt(Bool),
        changeNotifications |-> Opt(Or(Str, Bool))]
LsServerCapabilities2Types ==
    "lsFileOperationPatternOptions" :> [ignoreCase |-> Opt(Bool)] @@
    "lsFileOperationPattern" :> [glob |-> Str, matches |-> Opt(Signed),
        options |-> Opt(The("lsFileOperationPatternOptions"))] @@
    "lsFileOperationFilter" :> [scheme |-> Opt(Str),
        pattern |-> Opt(The("lsFileOperationPattern"))] @@
    "lsFileOperationRegistrationOptions" :> [filters |-> Opt(Vec(The("lsFileOperationFilter")))] @@
    "WorkspaceServerCapabilities" :> [workspaceFolders |-> The("WorkspaceFoldersOptions"),
        fileOperations |-> Opt(The("lsFileOperations")),
        textDocumentContentProvider |-> Opt(The("TextDocumentContentOptions"))] @@
    "lsFileOperations" :> Each({"didCreate", "willCreate", "didRename", "willRename",
        "didDelete", "willDelete"}, Opt(The("lsFileOperationRegistrationOptions")))
LsServerCapabilities3Types ==
    "SemanticHighlightingServerCapabilities" :> [scopes |-> Vec(Vec(Str))] @@
    "SemanticTokensServerFull" :> [delta |-> Bool] @@
    "SemanticTokensWithRegistrationOptions" :> [legend |-> The("SemanticTokensLegend"),
        range |-> Opt(Or(Bool, AnyJson)),
        full |-> Opt(Or(Bool, The("SemanticTokensServerFull"))),
        documentSelector |-> Opt(Vec(The("DocumentFilter"))), id |-> Opt(Str)] @@
    "InlayHintOptions" :> [workDoneProgress |-> Opt(Bool), resolveProvider |-> Opt(Bool)]
LsServerCapabilities4Types ==
    "lsServerCapabilities" :> ([textDocumentSync |-> Opt(Or(Signed, The("lsTextDocumentSyncOptions"))),
        hoverProvider |-> Opt(Bool), completionProvider |-> Opt(The("lsCompletionOptions")),
        signatureHelpProvider |-> Opt(The("lsSignatureHelpOptions")),
        codeActionProvider |-> Opt(Or(Bool, The("CodeActionOptions"))),
        codeLensProvider |-> Opt(The("CodeLensOptions")),
        documentRangeFormattingProvider |-> Opt(Or(Bool, The("DocumentRangeFormattingOptions"))),
        documentOnTypeFormattingProvider |-> Opt(The("lsDocumentOnTypeFormattingOptions")),
        renameProvider |-> Opt(Or(Bool, The("RenameOptions"))),
        documentLinkProvider |-> Opt(The("lsDocumentLinkOptions")),
        executeCommandProvider |-> Opt(The("lsExecuteCommandOptions")),
        workspace |-> Opt(The("WorkspaceServerCapabilities")),
        semanticHighlighting |-> Opt(The("SemanticHighlightingServerCapabilities")),
        semanticTokensProvider |-> Opt(The("SemanticTokensWithRegistrationOptions")),
        inlayHintProvider |-> Opt(Or(Bool, The("InlayHintOptions"))),
        diagnosticProvider |-> Opt(The("DiagnosticOptions")),
        inlineValueProvider |-> Opt(Or(Bool, The("InlineValueOptions"))),
        inlineCompletionProvider |-> Opt(Or(Bool, The("InlineCompletionOptions"))),
        experimental |-> Opt(AnyJson)] @@ Each({"definitionProvider", "referencesProvider",
        "documentHighlightProvider", "documentSymbolProvider", "workspaceSymbolProvider",
        "documentFormattingProvider", "colorProvider",
        "foldingRangeProvider"}, Opt(Or(Bool, The("WorkDoneProgressOptions")))) @@
        Each({"typeDefinitionProvider", "implementationProvider", "typeHierarchyProvider",
        "callHierarchyProvider", "selectionRangeProvider", "linkedEditingRangeProvider",
        "monikerProvider"}, Opt(Or(Bool, The("StaticRegistrationOptions")))))
LsTextDocumentClientCapabilities1Types ==
    "WorkDoneProgressOptions" :> [workDoneProgress |-> Opt(Bool)] @@
    "lsCompletionOptions" :> [workDoneProgress |-> Opt(Bool), resolveProvider |-> Opt(Bool),
        triggerCharacters |-> Opt(Vec(Str)), allCommitCharacters |-> Opt(Vec(Str))] @@
    "lsSaveOptions" :> [includeText |-> Bool] @@
    "lsSignatureHelpOptions" :> [workDoneProgress |-> Opt(Bool),
        triggerCharacters |-> Vec(Str)]
LsTextDocumentClientCapabilities2Types ==
    "lsTextDocumentSyncOptions" :> ([change |-> Opt(Signed),
        save |-> Opt(The("lsSaveOptions"))] @@ Each({"openClose", "willSave",
        "willSaveWaitUntil"}, Opt(Bool))) @@
    "SynchronizationCapabilities" :> Each({"dynamicRegistration", "willSave",
        "willSaveWaitUntil", "didSave"}, Opt(Bool)) @@
    "CompletionItemKindCapabilities" :> [valueSet |-> Opt(Vec(Signed))] @@
    "CompletionItemCapabilities" :> ([documentationFormat |-> Opt(Vec(Str))] @@
        Each({"snippetSupport", "commitCharactersSupport", "deprecatedSupport",
        "preselectSupport"}, Opt(Bool))) @@
    "CompletionCapabilities" :> [dynamicRegistration |-> Opt(Bool),
        contextSupport |-> Opt(Bool),
        completionItem |-> Opt(The("CompletionItemCapabilities")),
        completionItemKind |-> Opt(The("CompletionItemKindCapabilities"))] @@
    "HoverCapabilities" :> [dynamicRegistration |-> Opt(Bool),
        contentFormat |-> Opt(Vec(Str))] @@
    "ParameterInformationCapabilities" :> [labelOffsetSupport |-> Opt(Bool)]
LsTextDocumentClientCapabilities3Types ==
    "SignatureInformationCapabilities" :> [documentationFormat |-> Vec(Str),
        parameterInformation |-> The("ParameterInformationCapabilities")] @@
    "SignatureHelpCapabilities" :> [dynamicRegistration |-> Opt(Bool),
        signatureInformation |-> Opt(The("SignatureInformationCapabilities"))] @@
    "DocumentSymbolCapabilities" :> [dynamicRegistration |-> Opt(Bool),
        hierarchicalDocumentSymbolSupport |-> Opt(Bool),
        symbolKind |-> Opt(The("SymbolKindCapabilities"))] @@
    "DeclarationCapabilities" :> [dynamicRegistration |-> Opt(Bool),
        linkSupport |-> Opt(Bool)] @@
    "CodeActionKindCapabilities" :> [valueSet |-> Opt(Vec(Str))] @@
    "CodeActionLiteralSupportCapabilities" :> [codeActionKind |-> Opt(The("CodeActionKindCapabilities"))] @@
    "CodeActionCapabilities" :> [dynamicRegistration |-> Opt(Bool),
        codeActionLiteralSupport |-> Opt(The("CodeActionLiteralSupportCapabilities"))] @@
    "RenameCapabilities" :> [dynamicRegistration |-> Opt(Bool),
        prepareSupport |-> Opt(Bool)] @@
    "DiagnosticsTagSupport" :> [valueSet |-> Vec(Octet)]
LsTextDocumentClientCapabilities4Types ==
    "PublishDiagnosticsClientCapabilities" :> ([tagSupport |-> Opt(Or(Bool, The("DiagnosticsTagSupport")))] @@
        Each({"dynamicRegistration", "relatedInformation", "versionSupport",
        "codeDescriptionSupport", "dataSupport"}, Opt(Bool))) @@
    "FoldingRangeCapabilities" :> [dynamicRegistration |-> Opt(Bool),
        lineFoldingOnly |-> Opt(Bool), rangeLimit |-> Opt(Signed)] @@
    "SemanticHighlightingCapabilities" :> [dynamicRegistration |-> Opt(Bool),
        semanticHighlighting |-> Opt(Bool)] @@
    "SemanticTokensClientCapabilitiesRequestsFull" :> [delta |-> Bool] @@
    "SemanticTokensClientCapabilities" :> ([requests |-> The("lsRequests")] @@
        Each({"dynamicRegistration", "overlappingTokenSupport",
        "multilineTokenSupport"}, Opt(Bool)) @@ Each({"tokenTypes", "tokenModifiers",
        "formats"}, Vec(Str))) @@
    "lsRequests" :> [range |-> Opt(Or(Bool, The("SemanticTokensClientCapabilitiesRequestsFull"))),
        full |-> Opt(Or(Bool, AnyJson))]
LsTextDocumentClientCapabilities5Types ==
    "lsTextDocumentClientCapabilities" :> ([synchronization |-> The("SynchronizationCapabilities"),
        completion |-> Opt(The("CompletionCapabilities")),
        hover |-> Opt(The("HoverCapabilities")),
        signatureHelp |-> Opt(The("SignatureHelpCapabilities")),
        documentSymbol |-> Opt(The("DocumentSymbolCapabilities")),
        rangeFormatting |-> Opt(The("DocumentRangeFormattingClientCapabilities")),
        codeAction |-> Opt(The("CodeActionCapabilities")),
        codeLens |-> Opt(The("CodeLensClientCapabilities")),
        rename |-> Opt(The("RenameCapabilities")),
        publishDiagnostics |-> Opt(The("PublishDiagnosticsClientCapabilities")),
        foldingRange |-> Opt(The("FoldingRangeCapabilities")),
        semanticHighlightingCapabilities |-> Opt(The("SemanticHighlightingCapabilities")),
        semanticTokens |-> Opt(The("SemanticTokensClientCapabilities")),
        inlayHint |-> Opt(The("InlayHintClientCapabilities")),
        diagnostic |-> Opt(The("DiagnosticClientCapabilities")),
        inlineValue |-> Opt(The("InlineValueClientCapabilities")),
        inlineCompletion |-> Opt(The("InlineCompletionClientCapabilities"))] @@
        Each({"references", "documentHighlight", "formatting", "onTypeFormatting",
        "documentLink", "colorProvider", "typeHierarchyCapabilities", "selectionRange",
        "linkedEditingRange", "callHierarchy",
        "moniker"}, Opt(The("DynamicRegistrationCapabilities"))) @@ Each({"declaration",
        "definition", "typeDefinition",
        "implementation"}, Opt(The("DeclarationCapabilities"))))
LsWorkspaceClientCapabilites1Types ==
    "lschangeAnnotationSupport" :> [groupsOnLabel |-> Opt(Bool)] @@
    "WorkspaceEditCapabilities" :> ([resourceOperations |-> Opt(Vec(Str)),
        failureHandling |-> Opt(Str),
        changeAnnotationSupport |-> Opt(The("lschangeAnnotationSupport"))] @@
        Each({"documentChanges", "resourceChanges", "normalizesLineEndings",
        "metadataSupport"}, Opt(Bool))) @@
    "DynamicRegistrationCapabilities" :> [dynamicRegistration |-> Opt(Bool)] @@
    "InlayHintLazyProperties" :> [properties |-> Opt(Vec(Str))] @@
    "InlayHintClientCapabilities" :> [dynamicRegistration |-> Opt(Bool),
        resolveSupport |-> Opt(The("InlayHintLazyProperties"))] @@
    "SymbolKindCapabilities" :> [valueSet |-> Opt(Vec(Octet))] @@
    "SymbolCapabilities" :> [dynamicRegistration |-> Opt(Bool),
        symbolKind |-> Opt(The("SymbolKindCapabilities"))]
LsWorkspaceClientCapabilites2Types ==
    "lsFileOperationsClient" :> Each({"dynamicRegistration", "didCreate", "willCreate",
        "didRename", "willRename", "didDelete", "willDelete"}, Opt(Bool)) @@
    "lsWorkspaceClientCapabilites" :> ([workspaceEdit |-> Opt(The("WorkspaceEditCapabilities")),
        symbol |-> Opt(The("SymbolCapabilities")),
        fileOperations |-> Opt(The("lsFileOperationsClient")),
        textDocumentContent |-> Opt(The("TextDocumentContentClientCapabilities")),
        diagnostics |-> Opt(The("WorkspaceDiagnosticClientCapabilities"))] @@
        Each({"applyEdit", "workspaceFolders", "configuration"}, Opt(Bool)) @@
        Each({"didChangeConfiguration", "didChangeWatchedFiles", "executeCommand",
        "semanticTokens", "codeLens"}, Opt(The("DynamicRegistrationCapabilities"))))
ProgressTypes ==
    "ProgressParams" :> [token |-> Or(Str, Signed), value |-> AnyJson]
Language1Types ==
    "StatusReport" :> [type |-> Str, message |-> Str]
Language2Types ==
    "ActionableNotification" :> [severity |-> Signed, message |-> Str, data |-> Opt(AnyJson),
        commands |-> Vec(The("lsCommand"))] @@
    "ProgressReport" :> ([totalWork |-> Signed, workDone |-> Signed, complete |-> Bool] @@
        Each({"id", "task", "subTask", "status"}, Str))
Language3Types ==
    "EventNotification" :> [eventType |-> Signed, data |-> AnyJson]
LocationTypeTypes ==
    "lsLocation" :> [uri |-> Str, range |-> The("lsRange")] @@
    "LinkLocation" :> ([range |-> The("lsRange")] @@ Each({"uri", "displayName",
        "kind"}, Str)) @@
    "LocationLink" :> [originSelectionRange |-> Opt(The("lsRange")), targetUri |-> Str,
        targetRange |-> The("lsRange"), targetSelectionRange |-> The("lsRange")]
LsCodeActionTypes ==
    "CodeAction" :> [title |-> Str, kind |-> Opt(Str),
        diagnostics |-> Opt(Vec(The("lsDiagnostic"))), edit |-> Opt(The("lsWorkspaceEdit")),
        command |-> Opt(The("lsCommand"))]
LsFormattingOptionsTypes ==
    "lsFormattingOptions" :> ([tabSize |-> Signed, insertSpaces |-> Bool,
        key |-> Opt(KeyData)] @@ Each({"trimTrailingWhitespace", "insertFinalNewline",
        "trimFinalNewlines"}, Opt(Bool)))
LsMarkedStringTypes ==
    "MarkupContent" :> [kind |-> Str, value |-> Str]
LsPositionTypes ==
    "lsPosition" :> [line |-> Unsigned, character |-> Unsigned]
LsRangeTypes ==
    "lsRange" :> [start |-> The("lsPosition"), end |-> The("lsPosition")]
LsResponseErrorTypes ==
    "lsResponseError" :> [code |-> Signed, message |-> Str, data |-> Opt(AnyJson)]
LsTextDocumentEditTypes ==
    "lsTextDocumentEdit" :> [textDocument |-> The("lsVersionedTextDocumentIdentifier"),
        edits |-> Vec(The("lsTextEdit"))]
LsTextDocumentIdentifierTypes ==
    "lsTextDocumentIdentifier" :> [uri |-> Str]
LsTextDocumentItemTypes ==
    "lsTextDocumentItem" :> ([version |-> Signed] @@ Each({"uri", "languageId", "text"}, Str))
LsTextDocumentPositionParamsTypes ==
    "lsTextDocumentPositionParams" :> [textDocument |-> The("lsTextDocumentIdentifier"),
        position |-> The("lsPosition"), uri |-> Opt(Str)]
LsTextEdit1Types ==
    "lsChangeAnnotation" :> [label |-> Str, needsConfirmation |-> Opt(Bool),
        description |-> Opt(Str)]
LsTextEdit2Types ==
    "lsTextEdit" :> [range |-> The("lsRange"), newText |-> Str, annotationId |-> Opt(Str)]
LsVersionedTextDocumentIdentifierTypes ==
    "lsVersionedTextDocumentIdentifier" :> [uri |-> Str, version |-> Opt(Signed)]
LsWorkspaceEditTypes ==
    "lsChangeAnnotations" :> [id |-> The("lsChangeAnnotation")] @@
    "lsWorkspaceEditMetadata" :> [isRefactoring |-> Opt(Bool)] @@
    "lsWorkspaceEdit" :> [changes |-> Opt(Dict(Vec(The("lsTextEdit")))),
        documentChanges |-> Opt(Vec(Union("WorkspaceEdit"))),
        changeAnnotations |-> Opt(The("lsChangeAnnotations")),
        metadata |-> Opt(The("lsWorkspaceEditMetadata"))]
LspCompletionTypes ==
    "lsCompletionItem" :> ([label |-> Str, kind |-> Opt(Signed),
        insertTextFormat |-> Opt(Signed), documentation |-> Opt(Or(Str, The("MarkupContent"))),
        deprecated |-> Opt(Bool), preselect |-> Opt(Bool), textEdit |-> Opt(The("lsTextEdit")),
        additionalTextEdits |-> Opt(Vec(The("lsTextEdit"))),
        commitCharacters |-> Opt(Vec(Str)), command |-> Opt(The("lsCommand")),
        data |-> Opt(AnyJson)] @@ Each({"detail", "sortText", "filterText",
        "insertText"}, Opt(Str))) @@
    "CompletionList" :> [isIncomplete |-> Bool, items |-> Vec(The("lsCompletionItem")),
        applyKind |-> Opt(Signed)]
LspDiagnosticTypes ==
    "DiagnosticRelatedInformation" :> [location |-> The("lsLocation"), message |-> Str] @@
    "DiagnosticCodeDescription" :> [href |-> Str] @@
    "lsDiagnostic" :> [range |-> The("lsRange"), severity |-> Opt(Signed),
        code |-> Opt(Or(Str, Signed)),
        codeDescription |-> Opt(The("DiagnosticCodeDescription")), source |-> Opt(Str),
        message |-> Str, tags |-> Opt(Vec(Octet)),
        relatedInformation |-> Opt(Vec(The("DiagnosticRelatedInformation"))),
        data |-> Opt(AnyJson)]
Protocol3181Types ==
    "RelativePattern" :> [baseUri |-> AnyJson, pattern |-> Str] @@
    "NotebookDocumentFilter" :> Each({"notebookType", "scheme", "pattern"}, Opt(Str)) @@
    "NotebookDocumentIdentifier" :> [uri |-> Str] @@
    "VersionedNotebookDocumentIdentifier" :> [uri |-> Str, version |-> Opt(Signed)] @@
    "TextDocumentContentParams" :> [uri |-> Str] @@
    "TextDocumentContentResult" :> [text |-> Str] @@
    "TextDocumentContentOptions" :> [schemes |-> Vec(Str)] @@
    "TextDocumentContentClientCapabilities" :> [dynamicRegistration |-> Opt(Bool)] @@
    "DocumentDiagnosticParams" :> [textDocument |-> The("lsTextDocumentIdentifier"),
        identifier |-> Opt(Str), previousResultId |-> Opt(Str)] @@
    "PreviousResultId" :> [uri |-> Str, value |-> Str] @@
    "WorkspaceDiagnosticParams" :> [identifier |-> Opt(Str),
        previousResultIds |-> Opt(Vec(The("PreviousResultId")))] @@
    "FullDocumentDiagnosticReport" :> [kind |-> Str, resultId |-> Opt(Str),
        items |-> Vec(The("lsDiagnostic"))] @@
    "WorkspaceDocumentDiagnosticReport" :> [uri |-> Str, version |-> Opt(Signed),
        report |-> The("FullDocumentDiagnosticReport")] @@
    "WorkspaceDiagnosticReport" :> [items |-> Vec(The("WorkspaceDocumentDiagnosticReport"))] @@
    "DiagnosticOptions" :> [identifier |-> Opt(Str), interFileDependencies |-> Opt(Bool),
        workspaceDiagnostics |-> Opt(Bool)] @@
    "DiagnosticClientCapabilities" :> [dynamicRegistration |-> Opt(Bool),
        relatedDocumentSupport |-> Opt(Bool)]
Protocol3182Types ==
    "WorkspaceDiagnosticClientCapabilities" :> [refreshSupport |-> Opt(Bool)] @@
    "InlineValueContext" :> [frameId |-> Signed, stoppedLocation |-> The("lsRange")] @@
    "InlineValueParams" :> [textDocument |-> The("lsTextDocumentIdentifier"),
        range |-> The("lsRange"), context |-> The("InlineValueContext")] @@
    "InlineValue" :> ([range |-> The("lsRange"), caseSensitiveLookup |-> Opt(Bool)] @@
        Each({"text", "variableName", "expression"}, Opt(Str))) @@
    "InlineValueOptions" :> [workDoneProgress |-> Opt(Bool)] @@
    "InlineValueClientCapabilities" :> [dynamicRegistration |-> Opt(Bool)] @@
    "SelectedCompletionInfo" :> [range |-> The("lsRange"), text |-> Str] @@
    "InlineCompletionContext" :> [triggerKind |-> Signed,
        selectedCompletionInfo |-> Opt(The("SelectedCompletionInfo"))] @@
    "InlineCompletionParams" :> [textDocument |-> The("lsTextDocumentIdentifier"),
        position |-> The("lsPosition"), context |-> The("InlineCompletionContext")] @@
    "InlineCompletionItem" :> [insertText |-> Str, range |-> Opt(The("lsRange")),
        command |-> Opt(The("lsCommand"))] @@
    "InlineCompletionList" :> [items |-> Vec(The("InlineCompletionItem"))] @@
    "InlineCompletionOptions" :> [workDoneProgress |-> Opt(Bool)] @@
    "InlineCompletionClientCapabilities" :> [dynamicRegistration |-> Opt(Bool)] @@
    "DocumentRangesFormattingParams" :> [textDocument |-> The("lsTextDocumentIdentifier"),
        ranges |-> Vec(The("lsRange")), options |-> The("lsFormattingOptions")]
Protocol3183Types ==
    "DocumentRangeFormattingClientCapabilities" :> [dynamicRegistration |-> Opt(Bool),
        rangesSupport |-> Opt(Bool)] @@
    "DocumentRangeFormattingOptions" :> [workDoneProgress |-> Opt(Bool),
        rangesSupport |-> Opt(Bool)] @@
    "SnippetTextEdit" :> [range |-> The("lsRange"), snippet |-> Str,
        annotationId |-> Opt(Str)] @@
    "CodeLensResolveSupport" :> [properties |-> Vec(Str)] @@
    "CodeLensClientCapabilities" :> [dynamicRegistration |-> Opt(Bool),
        resolveSupport |-> Opt(The("CodeLensResolveSupport"))] @@
    "CodeActionKindDocumentation" :> [kind |-> Str, command |-> The("lsCommand")]
SymbolTypes ==
    "lsDocumentHighlight" :> [range |-> The("lsRange"), kind |-> Opt(Signed)] @@
    "lsSymbolInformation" :> [name |-> Str, kind |-> Octet, deprecated |-> Opt(Bool),
        location |-> The("lsLocation"), containerName |-> Opt(Str)] @@
    "lsDocumentSymbol" :> [name |-> Str, kind |-> Octet, range |-> The("lsRange"),
        selectionRange |-> The("lsRange"), detail |-> Opt(Str), deprecated |-> Opt(Bool),
        children |-> Opt(Vec(The("lsDocumentSymbol"))), flags |-> Signed]
SemanticTokensTypes ==
    "SemanticTokens" :> [data |-> Vec(Signed), resultId |-> Opt(Str)] @@
    "SemanticTokensParams" :> [textDocument |-> The("lsTextDocumentIdentifier")] @@
    "SemanticTokensDeltaParams" :> [textDocument |-> The("lsTextDocumentIdentifier"),
        previousResultId |-> Str] @@
    "SemanticTokensEdit" :> [startToken |-> Unsigned, deleteTokens |-> Unsigned,
        tokens |-> Vec(Signed)] @@
    "SemanticTokensOrDelta" :> [resultId |-> Opt(Str),
        edits |-> Opt(Vec(The("SemanticTokensEdit"))), tokens |-> Opt(Vec(Signed))] @@
    "SemanticTokensLegend" :> [tokenTypes |-> Vec(Str), tokenModifiers |-> Vec(Str)]
CallHierarchyTypes ==
    "CallHierarchyPrepareParams" :> [textDocument |-> The("lsTextDocumentIdentifier"),
        position |-> The("lsPosition")] @@
    "CallHierarchyItem" :> [name |-> Str, uri |-> Str, kind |-> Octet,
        tags |-> Opt(Vec(Signed)), detail |-> Opt(Str), range |-> The("lsRange"),
        selectionRange |-> The("lsRange"), data |-> Opt(AnyJson)] @@
    "CallHierarchyIncomingCallsParams" :> [item |-> The("CallHierarchyItem")] @@
    "CallHierarchyIncomingCall" :> [from |-> The("CallHierarchyItem"),
        fromRanges |-> Vec(The("lsRange"))] @@
    "CallHierarchyOutgoingCallsParams" :> [item |-> The("CallHierarchyItem")] @@
    "CallHierarchyOutgoingCall" :> [to |-> The("CallHierarchyItem"),
        fromRanges |-> Vec(The("lsRange"))]
CodeLensTypes ==
    "lsDocumentCodeLensParams" :> [textDocument |-> The("lsTextDocumentIdentifier")] @@
    "lsCodeLens" :> [range |-> The("lsRange"), command |-> Opt(The("lsCommand")),
        data |-> Opt(AnyJson)]
ColorPresentationTypes ==
    "ColorPresentationParams" :> [textDocument |-> The("lsTextDocumentIdentifier"),
        range |-> The("lsRange"), color |-> The("Color")] @@
    "ColorPresentation" :> [label |-> Str, textEdit |-> The("lsTextEdit"),
        additionalTextEdits |-> Vec(The("lsTextEdit"))]
CompletionTypes ==
    "lsCompletionContext" :> [triggerKind |-> Signed, triggerCharacter |-> Opt(Str)] @@
    "lsCompletionParams" :> [textDocument |-> The("lsTextDocumentIdentifier"),
        position |-> The("lsPosition"), uri |-> Opt(Str),
        context |-> Opt(The("lsCompletionContext"))]
DidRenameFilesTypes ==
    "FileRenameEvent" :> [oldUri |-> Str, newUri |-> Str] @@
    "FileRenameParams" :> [files |-> Vec(The("FileRenameEvent"))]
DidChangeTypes ==
    "lsTextDocumentContentChangeEvent" :> [range |-> Opt(The("lsRange")),
        rangeLength |-> Opt(Signed), text |-> Str] @@
    "lsTextDocumentDidChangeParams" :> [textDocument |-> The("lsVersionedTextDocumentIdentifier"),
        contentChanges |-> Vec(The("lsTextDocumentContentChangeEvent")), uri |-> Opt(Str)]
DidCloseTypes ==
    "TextDocumentDidClose.Params" :> [textDocument |-> The("lsTextDocumentIdentifier")]
DidOpenTypes ==
    "TextDocumentDidOpen.Params" :> [textDocument |-> The("lsTextDocumentItem"),
        text |-> Opt(Str)]
DidSaveTypes ==
    "TextDocumentDidSave.Params" :> [textDocument |-> The("lsTextDocumentIdentifier"),
        text |-> Opt(Str)]
DocumentColor1Types ==
    "DocumentColorParams" :> [textDocument |-> The("lsTextDocumentIdentifier")]
DocumentColor2Types ==
    "Color" :> Each({"red", "green", "blue", "alpha"}, Double) @@
    "ColorInformation" :> [range |-> The("lsRange"), color |-> The("Color")]
DocumentLinkTypes ==
    "TextDocumentDocumentLink.Params" :> [textDocument |-> The("lsTextDocumentIdentifier")] @@
    "lsDocumentLink" :> [range |-> The("lsRange"), target |-> Opt(Str), data |-> Opt(AnyJson)]
DocumentSymbolTypes ==
    "lsDocumentSymbolParams" :> [textDocument |-> The("lsTextDocumentIdentifier"),
        workDoneToken |-> Opt(Or(Str, Signed)), partialResultToken |-> Opt(Or(Str, Signed))]
FoldingRangeTypes ==
    "FoldingRangeRequestParams" :> [textDocument |-> The("lsTextDocumentIdentifier")] @@
    "FoldingRange" :> ([kind |-> Str] @@ Each({"startLine", "endLine", "startCharacter",
        "endCharacter"}, Signed))
FormattingTypes ==
    "TextDocumentFormatting.Params" :> [textDocument |-> The("lsTextDocumentIdentifier"),
        options |-> The("lsFormattingOptions")]
HoverTypes ==
    "Result" :> [contents |-> Union("Hover"), range |-> Opt(The("lsRange"))]
InlayHint1Types ==
    "TextDocumentInlayHint.Params" :> [textDocument |-> The("lsTextDocumentIdentifier"),
        range |-> The("lsRange")] @@
    "lsInlayHintLabelPart" :> [value |-> Str, tooltip |-> Opt(Str),
        location |-> Opt(The("lsLocation")), command |-> Opt(The("lsCommandAny"))]
InlayHint2Types ==
    "lsInlayHint" :> [position |-> The("lsPosition"), label |-> Str, kind |-> Opt(Signed),
        textEdits |-> Opt(Vec(The("lsTextEdit"))), tooltip |-> Opt(Str),
        paddingLeft |-> Opt(Bool), paddingRight |-> Opt(Bool), data |-> Opt(AnyJson)]
LinkedEditingRangeTypes ==
    "LinkedEditingRangeParams" :> [textDocument |-> The("lsTextDocumentIdentifier"),
        position |-> The("lsPosition")] @@
    "LinkedEditingRanges" :> [ranges |-> Vec(The("lsRange")), wordPattern |-> Opt(Str)]
OnTypeFormattingTypes ==
    "lsDocumentOnTypeFormattingParams" :> [textDocument |-> The("lsTextDocumentIdentifier"),
        options |-> The("lsFormattingOptions"), position |-> The("lsPosition"), ch |-> Str]
PrepareRenameTypes ==
    "PrepareRenameResult" :> [range |-> The("lsRange"), placeholder |-> Str]
PublishDiagnosticsTypes ==
    "TextDocumentPublishDiagnostics.Params" :> [uri |-> Str,
        diagnostics |-> Vec(The("lsDiagnostic"))]
RangeFormattingTypes ==
    "lsTextDocumentRangeFormattingParams" :> [textDocument |-> The("lsTextDocumentIdentifier"),
        range |-> The("lsRange"), options |-> The("lsFormattingOptions")]
ReferencesTypes ==
    "lsReferenceContext" :> [includeDeclaration |-> Opt(Bool)] @@
    "TextDocumentReferences.Params" :> [textDocument |-> The("lsTextDocumentIdentifier"),
        position |-> The("lsPosition"), context |-> The("lsReferenceContext")]
RenameTypes ==
    "TextDocumentRename.Params" :> [textDocument |-> The("lsTextDocumentIdentifier"),
        position |-> The("lsPosition"), newName |-> Str]
ResolveTypeHierarchyTypes ==
    "ResolveTypeHierarchyItemParams" :> [item |-> The("TypeHierarchyItem"),
        resolve |-> Opt(Signed), direction |-> Direction]
SelectionRangeTypes ==
    "SelectionRangeParams" :> [textDocument |-> The("lsTextDocumentIdentifier"),
        positions |-> Vec(The("lsPosition"))] @@
    "SelectionRange" :> [range |-> The("lsRange"), parent |-> Opt(The("SelectionRange"))]
SemanticHighlightingTypes ==
    "SemanticHighlightingInformation" :> [line |-> Signed, tokens |-> Str] @@
    "SemanticHighlightingParams" :> [textDocument |-> The("lsVersionedTextDocumentIdentifier"),
        lines |-> Vec(The("SemanticHighlightingInformation"))]
SignatureHelpTypes ==
    "lsParameterInformation" :> [label |-> Str,
        documentation |-> Opt(Or(Str, The("MarkupContent")))] @@
    "lsSignatureInformation" :> [label |-> Str,
        documentation |-> Opt(Or(Str, The("MarkupContent"))),
        parameters |-> Vec(The("lsParameterInformation")), activeParameter |-> Opt(Signed)] @@
    "lsSignatureHelp" :> [signatures |-> Vec(The("lsSignatureInformation")),
        activeSignature |-> Opt(Signed), activeParameter |-> Opt(Signed)]
TypeHierarchyTypes ==
    "TypeHierarchyParams" :> [textDocument |-> The("lsTextDocumentIdentifier"),
        position |-> The("lsPosition"), uri |-> Opt(Str), resolve |-> Opt(Signed),
        direction |-> Opt(Direction)] @@
    "TypeHierarchyItem" :> [name |-> Str, uri |-> Str, detail |-> Opt(Str), kind |-> Octet,
        deprecated |-> Opt(Bool), range |-> The("lsRange"), selectionRange |-> The("lsRange"),
        parents |-> Opt(Vec(The("TypeHierarchyItem"))),
        children |-> Opt(Vec(The("TypeHierarchyItem"))), data |-> Opt(AnyJson)]
WillSaveTypes ==
    "WillSaveTextDocumentParams.Params" :> [textDocument |-> The("lsTextDocumentIdentifier"),
        reason |-> Opt(Signed)]
MessageNotify1Types ==
    "MessageParams" :> [type |-> Signed, message |-> Str]
MessageNotify2Types ==
    "MessageActionItem" :> [title |-> Str] @@
    "ShowMessageRequestParams" :> [type |-> Signed, message |-> Str,
        actions |-> Vec(The("MessageActionItem"))]
ApplyEditTypes ==
    "ApplyWorkspaceEditParams" :> [edit |-> The("lsWorkspaceEdit"), label |-> Str,
        metadata |-> Opt(The("lsWorkspaceEditMetadata"))] @@
    "ApplyWorkspaceEditResponse" :> [applied |-> Bool, failureReason |-> Opt(Str)]
ConfigurationTypes ==
    "ConfigurationItem" :> [scopeUri |-> Str, section |-> Str] @@
    "ConfigurationParams" :> [items |-> Vec(The("ConfigurationItem"))]
DidChangeWorkspaceFoldersTypes ==
    "WorkspaceFoldersChangeEvent" :> [added |-> Vec(The("WorkspaceFolder")),
        removed |-> Vec(The("WorkspaceFolder"))] @@
    "DidChangeWorkspaceFoldersParams" :> [event |-> The("WorkspaceFoldersChangeEvent")]
DidChangeConfigurationTypes ==
    "lsDidChangeConfigurationParams" :> [settings |-> AnyJson]
DidChangeWatchedFilesTypes ==
    "lsFileEvent" :> [uri |-> Str, type |-> Signed] @@
    "lsDidChangeWatchedFilesParams" :> [changes |-> Vec(The("lsFileEvent"))]
WorkspaceFoldersTypes ==
    "WorkspaceFolder" :> [uri |-> Str, name |-> Str]
LsCommandTypes ==
    "lsCommand" :> [title |-> Str, command |-> Str, arguments |-> Opt(Vec(AnyJson)),
        tooltip |-> Opt(Or(Str, The("MarkupContent")))] @@
    "lsCommandAny" :> [title |-> Str, command |-> Str, arguments |-> Opt(AnyJson),
        tooltip |-> Opt(Or(Str, The("MarkupContent")))]

Structs ==
    CancellationTypes @@ CodeActionParamsTypes @@ ExecuteCommandParamsTypes @@
    ResourceOperationTypes @@ RegisterCapabilityTypes @@ UnregisterCapabilityTypes @@
    OverridableMethodTypes @@ WorkspaceSymbolParamsTypes @@ AddOverridableMethodsTypes @@
    CheckConstructorsStatusTypes @@ CheckDelegateMethodsStatusTypes @@
    CheckHashCodeEqualsStatusTypes @@ CheckToStringStatusTypes @@ FindLinksTypes @@
    GenerateAccessorsTypes @@ GenerateConstructorsTypes @@ GenerateDelegateMethodsTypes @@
    GenerateHashCodeEqualsTypes @@ GenerateToStringTypes @@ GetMoveDestinationsTypes @@
    GetRefactorEditTypes @@ ResolveUnimplementedAccessorsTypes @@ SearchSymbolsTypes @@
    ProtocolTypes @@ InitializeParamsTypes @@ InitializeTypes @@
    LsClientCapabilitiesTypes @@ LsServerCapabilities1Types @@
    LsServerCapabilities2Types @@ LsServerCapabilities3Types @@
    LsServerCapabilities4Types @@ LsTextDocumentClientCapabilities1Types @@
    LsTextDocumentClientCapabilities2Types @@ LsTextDocumentClientCapabilities3Types @@
    LsTextDocumentClientCapabilities4Types @@ LsTextDocumentClientCapabilities5Types @@
    LsWorkspaceClientCapabilites1Types @@ LsWorkspaceClientCapabilites2Types @@
    ProgressTypes @@ Language1Types @@ Language2Types @@ Language3Types @@
    LocationTypeTypes @@ LsCodeActionTypes @@ LsFormattingOptionsTypes @@
    LsMarkedStringTypes @@ LsPositionTypes @@ LsRangeTypes @@ LsResponseErrorTypes @@
    LsTextDocumentEditTypes @@ LsTextDocumentIdentifierTypes @@ LsTextDocumentItemTypes @@
    LsTextDocumentPositionParamsTypes @@ LsTextEdit1Types @@ LsTextEdit2Types @@
    LsVersionedTextDocumentIdentifierTypes @@ LsWorkspaceEditTypes @@ LspCompletionTypes @@
    LspDiagnosticTypes @@ Protocol3181Types @@ Protocol3182Types @@ Protocol3183Types @@
    SymbolTypes @@ SemanticTokensTypes @@ CallHierarchyTypes @@ CodeLensTypes @@
    ColorPresentationTypes @@ CompletionTypes @@ DidRenameFilesTypes @@ DidChangeTypes @@
    DidCloseTypes @@ DidOpenTypes @@ DidSaveTypes @@ DocumentColor1Types @@
    DocumentColor2Types @@ DocumentLinkTypes @@ DocumentSymbolTypes @@ FoldingRangeTypes @@
    FormattingTypes @@ HoverTypes @@ InlayHint1Types @@ InlayHint2Types @@
    LinkedEditingRangeTypes @@ OnTypeFormattingTypes @@ PrepareRenameTypes @@
    PublishDiagnosticsTypes @@ RangeFormattingTypes @@ ReferencesTypes @@ RenameTypes @@
    ResolveTypeHierarchyTypes @@ SelectionRangeTypes @@ SemanticHighlightingTypes @@
    SignatureHelpTypes @@ TypeHierarchyTypes @@ WillSaveTypes @@ MessageNotify1Types @@
    MessageNotify2Types @@ ApplyEditTypes @@ ConfigurationTypes @@
    DidChangeWorkspaceFoldersTypes @@ DidChangeConfigurationTypes @@
    DidChangeWatchedFilesTypes @@ WorkspaceFoldersTypes @@ LsCommandTypes

(* Members that a structure declares and its MAKE_REFLECT_STRUCT omits: they
   are neither written nor read. *)
Unreflected ==
    "CompletionCapabilities" :> {"contextSupport"} @@
    "GenerateConstructorsParams" :> {"constructors"} @@
    "GetRefactorEditParams" :> {"commandArguments"} @@
    "ProgressReport" :> {"totalWork"} @@
    "TypeHierarchyParams" :> {"uri"} @@
    "lsCompletionParams" :> {"uri"} @@
    "lsDiagnostic" :> {"relatedInformation"}

(* Optional members whose declaration gives them a value. *)
Initialized ==
    "CreateFileOptions" :> {"overwrite", "ignoreIfExists"} @@
    "DeleteFileOptions" :> {"recursive", "ignoreIfNotExists"} @@
    "lsCompletionOptions" :> {"resolveProvider"}
=============================================================================
