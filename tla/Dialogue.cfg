SPECIFICATION DialogueSpec
CONSTANTS
    ToolNames = {"look"}
    JSONTool = "cerber_json_response"
    MaxTurns = 2
    MaxBlocks = 3
INVARIANTS
    DialogueTypeOK
    StreamTellsTheWhole
    RoundTrip
    ResultsFollowCalls
