SPECIFICATION Spec
CHECK_DEADLOCK FALSE
CONSTANTS
    JsonValues <- MCJsonValues
    Depth <- MCDepth
    Letters <- MCLetters
    ToolSchemas <- MCToolSchemas
    Arguments <- MCArguments
    ByteStrings <- MCByteStrings
    EncodedTexts <- MCEncodedTexts
    HeaderNames = {"authorization", "x-api-key", "x-trace", "cookie"}
    ApiKeys <- MCApiKeys
    ExtraHeaders <- MCExtraHeaders
    ResponseTexts <- MCResponseTexts
    Generations <- MCGenerations
INVARIANTS
    SchemasAreMet
    Base64Inverts
    CredentialsAreRedacted
    RequestsAreAsAsked
