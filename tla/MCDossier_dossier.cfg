SPECIFICATION Spec
CONSTANTS
    MaxId = 4
    Texts = {t1, t2}
    MaxRests = 3
    None = None
    Keys = {k1, k2}
    Members = {"a", "long"}
    Raw <- MCRaw
    Escaped <- MCEscaped
    MaxOutputBytes = 40
    Structure = 2
    MaxEdits <- MCMaxEdits
    ClaimFiles = {x, y}
    Names = {n1, n2}
    Images = {i1}
    Window = 1
    Grace = 2
    MaxTick = 4
    NoImage = NoImage
    Subjects <- MCSubjects
    MaxSecond = 4
    MaxBlocks = 2
    MaxMarkWords = 2
    MinSimilarity = 34
    Vocabulary <- MCVocabulary
    Bodies <- MCBodies
    Fields <- MCFields
    MaxRevisions = 2
    TooLong <- MCTooLong
    Unreadable = Unreadable
    NoContent = NoContent
    Trees <- MCTrees
    Releases = {"r1", "r2"}
    Ships <- MCShips
    Own = {"mine"}
    NoFile = NoFile
    Linkers = {p1, p2}
    Files = {f1, f2}
    Owned = {c1}
    Steps = {s1, s2}
    NoStep = NoStep
    MaxVersion = 2
    MaxSteps = 1
    Home <- MCHome
    NoModule = "none"
    Modules <- MCModules
    Blurbs = {"none", "plain", "wide", "long"}
    Characters <- MCCharacters
    Width <- MCWidth
    MaxSummaryRunes = 1
    SharedBudgetBytes = 10
    ModuleBudgetBytes = 9
    Authors = {n1x, n2x, n3x}
    NewIds = {"i1", "i2"}
    ClaimPaths = {"i1", "i2"}
    NoClaim = NoClaim
SYMMETRY MCSymmetry
INVARIANTS ReadinessTrue NoInternalsLeak ProvidedTrue BoundsExact LinksTrue ShownIsTrue InboxTrue PanelsTrue 
PROPERTIES LinksAreATable NewKeepsFiles
CHECK_DEADLOCK FALSE
