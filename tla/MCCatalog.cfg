CONSTANTS
    ann = ann
    bob = bob
    LowerCase <- MCLowerCase
    MaxVideos = 2
    Users = {ann, bob}
    Voters = {bob}
    Uploader <- MCUploader
    TagLists <- MCTagLists
    Names <- MCNames
    FirstName <- MCFirstName
    Queries <- MCQueries
    Limit = 1
    NoTag = NoTag
SPECIFICATION Spec
INVARIANTS
    TypeOK
    TagsExplained
    SearchIsExact
    MyVideosAgree
